---------------------------- MODULE Spec2Model ----------------------------
(***************************************************************************)
(* Model of the Time-Value-of-Money calculator of                         *)
(* src/src/components/calculators/TimeValueMoneyCalculator.tsx, of the    *)
(* credit card and auto loan calculators next to it                       *)
(* (CreditCardCalculator.tsx, AutoLoanCalculator.tsx), and of the three   *)
(* together over the store of useKV.                                      *)
(*                                                                         *)
(* JavaScript numbers are IEEE-754 binary floating point.  They are       *)
(* modelled as binary floating point numbers with a significand of Prec   *)
(* bits (instead of 53), rounded to nearest, ties to even, after every    *)
(* operation, with signed zeros, NaN and the two infinities.  A finite    *)
(* value is s * m * 2^e with s in {1,-1} and either m = 0 (and e = 0) or  *)
(* 2^(Prec-1) <= m < 2^Prec.  A magnitude of 2^(EMax+1) or more is an     *)
(* infinity; gradual underflow is not modelled.                            *)
(*                                                                         *)
(* With a significand this short the distance between neighbouring        *)
(* numbers near 1 is far above the tolerance 1e-7 of                      *)
(* calculateInterestRate: the convergence test passes only when two       *)
(* successive iterates are the same number.  The model therefore decides  *)
(* what the loop does with converging and non-converging runs, not how    *)
(* fast a run converges in double precision.                              *)
(*                                                                         *)
(* A value that is used more than once is bound by                        *)
(*     CHOOSE out \in { body : x \in {value} } : TRUE                     *)
(* which is LET x == value IN body with value computed once.              *)
(***************************************************************************)
EXTENDS Integers, Sequences, FiniteSets, TLC

\* Width of the significand of a modelled number, in bits.
Prec == 11

\* Largest binary exponent of a finite modelled number.
EMax == 1023

\* Number of loop passes after which the evaluation of a loop is cut off.
LoopFuel == 128

----------------------------------------------------------------------------
(* Numbers *)

NaN == [k |-> "nan", s |-> 1, m |-> 0, e |-> 0]

Infinity(sg) == [k |-> "inf", s |-> sg, m |-> 0, e |-> 0]

Zero(sg) == [k |-> "fin", s |-> sg, m |-> 0, e |-> 0]

\* The value null of a `number | null`.
Null == [k |-> "null", s |-> 1, m |-> 0, e |-> 0]

IsNaN(x) == x.k = "nan"

IsInf(x) == x.k = "inf"

IsZero(x) == x.k = "fin" /\ x.m = 0

\* Number.isFinite: a number that is neither NaN nor an infinity.
IsFinite(x) == x.k = "fin"

\* Number of binary digits of i in lo+1 .. hi, by bisection.
RECURSIVE BitLenIn(_, _, _)
BitLenIn(i, lo, hi) ==
  IF hi - lo = 1 THEN hi
  ELSE IF i < 2 ^ ((lo + hi) \div 2)
    THEN BitLenIn(i, lo, (lo + hi) \div 2)
    ELSE BitLenIn(i, (lo + hi) \div 2, hi)

\* Number of binary digits of a natural number below 2^31.
BitLen(i) == IF i = 0 THEN 0 ELSE BitLenIn(i, 0, 31)

\* The finite number sg * mant * 2^ex of a normalised significand, or the
\* infinity it overflows to.
Finite(sg, mant, ex) ==
  IF ex + Prec - 1 > EMax THEN Infinity(sg)
  ELSE [k |-> "fin", s |-> sg, m |-> mant, e |-> ex]

\* A significand that rounding has carried up to 2^Prec is renormalised.
Carry(sg, q, ex) ==
  IF q = 2 ^ Prec THEN Finite(sg, 2 ^ (Prec - 1), ex + 1) ELSE Finite(sg, q, ex)

\* The number nearest to sg * mag * 2^ex (ties to even) for mag # 0 of len
\* binary digits.  sticky says that the exact value is slightly larger in
\* magnitude than mag * 2^ex.
RoundLen(sg, mag, len, ex, sticky) ==
  IF len <= Prec THEN Finite(sg, mag * (2 ^ (Prec - len)), ex - (Prec - len))
  ELSE CHOOSE out \in
         { Carry(sg,
                 IF r > half \/ (r = half /\ (sticky \/ q % 2 = 1)) THEN q + 1 ELSE q,
                 ex + (len - Prec)) :
             q \in { mag \div (2 ^ (len - Prec)) },
             r \in { mag % (2 ^ (len - Prec)) },
             half \in { 2 ^ (len - Prec - 1) } } : TRUE

\* The number nearest to sg * mag * 2^ex.
Round(sg, mag, ex, sticky) ==
  IF mag = 0 THEN Zero(sg)
  ELSE CHOOSE out \in { RoundLen(sg, mag, len, ex, sticky) : len \in { BitLen(mag) } } : TRUE

\* The number of an integer literal.
Num(i) == Round(IF i < 0 THEN -1 ELSE 1, IF i < 0 THEN 0 - i ELSE i, 0, FALSE)

NumZero == Num(0)

One == Num(1)

Hundred == Num(100)

\* -x
Neg(x) == IF x.k = "nan" THEN x ELSE [x EXCEPT !.s = 0 - x.s]

\* Math.abs
MathAbs(x) == IF x.k = "nan" THEN x ELSE [x EXCEPT !.s = 1]

\* x * y
Mul(x, y) ==
  CHOOSE out \in
    { IF IsNaN(a) \/ IsNaN(b) THEN NaN
      ELSE IF (IsInf(a) /\ IsZero(b)) \/ (IsZero(a) /\ IsInf(b)) THEN NaN
      ELSE IF IsInf(a) \/ IsInf(b) THEN Infinity(a.s * b.s)
      ELSE IF IsZero(a) \/ IsZero(b) THEN Zero(a.s * b.s)
      ELSE RoundLen(a.s * b.s, a.m * b.m,
                    IF a.m * b.m >= 2 ^ (2 * Prec - 1) THEN 2 * Prec ELSE 2 * Prec - 1,
                    a.e + b.e, FALSE) :
      a \in {x}, b \in {y} } : TRUE

\* x / y
Div(x, y) ==
  CHOOSE out \in
    { IF IsNaN(a) \/ IsNaN(b) THEN NaN
      ELSE IF IsInf(a) THEN (IF IsInf(b) THEN NaN ELSE Infinity(a.s * b.s))
      ELSE IF IsInf(b) THEN Zero(a.s * b.s)
      ELSE IF IsZero(b) THEN (IF IsZero(a) THEN NaN ELSE Infinity(a.s * b.s))
      ELSE IF IsZero(a) THEN Zero(a.s * b.s)
      ELSE RoundLen(a.s * b.s, (a.m * (2 ^ (Prec + 2))) \div b.m,
                    IF (a.m * (2 ^ (Prec + 2))) \div b.m >= 2 ^ (Prec + 2)
                      THEN Prec + 3 ELSE Prec + 2,
                    a.e - b.e - (Prec + 2),
                    (a.m * (2 ^ (Prec + 2))) % b.m # 0) :
      a \in {x}, b \in {y} } : TRUE

\* The sum of two finite non-zero numbers from their exact sum * 2^lo.
AddAligned(sum, lo) ==
  IF sum = 0 THEN Zero(1)
  ELSE Round(IF sum < 0 THEN -1 ELSE 1, IF sum < 0 THEN 0 - sum ELSE sum, lo, FALSE)

\* x + y
Add(x, y) ==
  CHOOSE out \in
    { IF IsNaN(a) \/ IsNaN(b) THEN NaN
      ELSE IF IsInf(a) THEN (IF IsInf(b) /\ a.s # b.s THEN NaN ELSE a)
      ELSE IF IsInf(b) THEN b
      ELSE IF IsZero(a) /\ IsZero(b)
        THEN (IF a.s = -1 /\ b.s = -1 THEN Zero(-1) ELSE Zero(1))
      ELSE IF IsZero(a) THEN b
      ELSE IF IsZero(b) THEN a
      ELSE IF a.e - b.e > Prec + 1 THEN a
      ELSE IF b.e - a.e > Prec + 1 THEN b
      ELSE IF a.e < b.e
        THEN AddAligned(a.s * a.m + b.s * b.m * (2 ^ (b.e - a.e)), a.e)
        ELSE AddAligned(a.s * a.m * (2 ^ (a.e - b.e)) + b.s * b.m, b.e) :
      a \in {x}, b \in {y} } : TRUE

\* x - y
Sub(x, y) == Add(x, Neg(y))

\* x < y
Less(x, y) ==
  \E d \in { Sub(x, y) } :
    \/ d.k = "inf" /\ d.s = -1
    \/ d.k = "fin" /\ d.m # 0 /\ d.s = -1

\* x > y
Greater(x, y) == Less(y, x)

\* x >= y
GreaterEq(x, y) ==
  \E d \in { Sub(x, y) } :
    \/ d.k = "inf" /\ d.s = 1
    \/ d.k = "fin" /\ (d.m = 0 \/ d.s = 1)

\* x === y on numbers: NaN equals nothing, the two zeros are equal.
StrictEq(x, y) ==
  \E a \in {x}, b \in {y} :
    /\ ~IsNaN(a)
    /\ ~IsNaN(b)
    /\ \/ a = b
       \/ IsZero(a) /\ IsZero(b)

\* x !== y
StrictNeq(x, y) == ~StrictEq(x, y)

\* x || y on numbers: NaN and the zeros are falsy.
OrElse(x, y) == CHOOSE out \in { IF IsNaN(a) \/ IsZero(a) THEN y ELSE a : a \in {x} } : TRUE

\* The integer held by a finite number with no fractional part.
ToInt(x) ==
  IF x.m = 0 THEN 0
  ELSE IF x.e >= 0 THEN x.s * x.m * (2 ^ x.e)
  ELSE x.s * (x.m \div (2 ^ (0 - x.e)))

\* Whether a finite number has no fractional part.
IsInteger(x) ==
  /\ IsFinite(x)
  /\ \/ x.m = 0
     \/ x.e >= 0
     \/ (x.e > 0 - Prec /\ x.m % (2 ^ (0 - x.e)) = 0)

\* x multiplied i times into 1.
RECURSIVE PowInt(_, _)
PowInt(x, i) ==
  IF i = 0 THEN One
  ELSE CHOOSE out \in { Mul(x, rest) : rest \in { PowInt(x, i - 1) } } : TRUE

\* Math.pow(x, y) for an exponent y without fractional part (the period
\* counts of the model are whole numbers): repeated multiplication.
\* Math.pow(x, 0) is 1 for every x, NaN included.  Not defined here for an
\* exponent with a fractional part.
MathPow(x, y) ==
  CHOOSE out \in
    { CASE IsNaN(ex) -> NaN
        [] IsZero(ex) -> One
        [] IsInteger(ex) /\ ~IsZero(ex) /\ ex.s = 1 -> PowInt(base, ToInt(ex))
        [] IsInteger(ex) /\ ~IsZero(ex) /\ ex.s = -1 ->
             Div(One, PowInt(base, 0 - ToInt(ex))) :
      base \in {x}, ex \in {y} } : TRUE

\* ln 2 = 0.6931..., to 12 bits.
Ln2 == Round(1, 2839, -12, FALSE)

\* The first `bits` binary digits of log2(f / 2^(Prec+1)) for a fixed-point
\* f with 2^(Prec+1) <= f < 2^(Prec+2), by repeated squaring; acc collects them.
RECURSIVE Log2Frac(_, _, _)
Log2Frac(f, bits, acc) ==
  IF bits = 0 THEN acc
  ELSE CHOOSE out \in
         { IF sq >= 2 ^ (Prec + 2)
             THEN Log2Frac(sq \div 2, bits - 1, 2 * acc + 1)
             ELSE Log2Frac(sq, bits - 1, 2 * acc) :
           sq \in { (f * f) \div (2 ^ (Prec + 1)) } } : TRUE

\* Math.log: NaN for a negative argument, -Infinity at zero, +0 at 1.
MathLog(x) ==
  CHOOSE out \in
    { IF IsNaN(a) THEN NaN
      ELSE IF IsZero(a) THEN Infinity(-1)
      ELSE IF a.s = -1 THEN NaN
      ELSE IF IsInf(a) THEN Infinity(1)
      ELSE CHOOSE lg \in
             { Mul(Round(IF k < 0 THEN -1 ELSE 1, IF k < 0 THEN 0 - k ELSE k,
                         0 - (Prec + 1), FALSE),
                   Ln2) :
               k \in { (a.e + Prec - 1) * (2 ^ (Prec + 1))
                         + Log2Frac(a.m * 4, Prec + 1, 0) } } : TRUE :
      a \in {x} } : TRUE

----------------------------------------------------------------------------
(* Strings: the value of an <input type="number"> is a sequence of characters *)

Digits == {"0", "1", "2", "3", "4", "5", "6", "7", "8", "9"}

DigitVal(c) ==
  CASE c = "0" -> 0 [] c = "1" -> 1 [] c = "2" -> 2 [] c = "3" -> 3
    [] c = "4" -> 4 [] c = "5" -> 5 [] c = "6" -> 6 [] c = "7" -> 7
    [] c = "8" -> 8 [] c = "9" -> 9

\* Length of the longest prefix of str made of digits.
RECURSIVE DigitPrefixLen(_)
DigitPrefixLen(str) ==
  IF str = <<>> THEN 0
  ELSE IF Head(str) \notin Digits THEN 0
  ELSE 1 + DigitPrefixLen(Tail(str))

\* The integer written by a sequence of digits.
RECURSIVE DigitsVal(_)
DigitsVal(str) ==
  IF str = <<>> THEN 0
  ELSE 10 * DigitsVal(SubSeq(str, 1, Len(str) - 1)) + DigitVal(str[Len(str)])

\* parseFloat, last step: the number written by the digits found, fp of them
\* after the decimal point, rounded; NaN when there is no digit.  More than
\* nine digits (up to eighteen) are read as two groups, the upper one times
\* 10^9 plus the lower nine digits.
ParseDigits(sg, digits, fp) ==
  IF digits = <<>> THEN NaN
  ELSE IF Len(digits) > 9
    THEN Div(Add(Mul(Round(sg, DigitsVal(SubSeq(digits, 1, Len(digits) - 9)), 0, FALSE),
                     Num(10 ^ 9)),
                 Round(sg, DigitsVal(SubSeq(digits, Len(digits) - 8, Len(digits))), 0,
                       FALSE)),
             Num(10 ^ fp))
  ELSE Div(Round(sg, DigitsVal(digits), 0, FALSE), Num(10 ^ fp))

\* parseFloat after the integer digits: the digits after a decimal point.
ParseFraction(sg, intDigits, rest) ==
  CHOOSE out \in
    { ParseDigits(sg, intDigits \o SubSeq(rest, 1, fp), fp) :
      fp \in { DigitPrefixLen(rest) } } : TRUE

\* parseFloat after the sign.
ParseUnsigned(sg, body) ==
  CHOOSE out \in
    { IF Len(body) > ip /\ body[ip + 1] = "."
        THEN ParseFraction(sg, SubSeq(body, 1, ip), SubSeq(body, ip + 2, Len(body)))
        ELSE ParseFraction(sg, SubSeq(body, 1, ip), <<>>) :
      ip \in { DigitPrefixLen(body) } } : TRUE

\* parseFloat: the longest prefix sign? digits* (. digits*)? holding at least
\* one digit; NaN when there is none (the empty string).  Exponent notation
\* is not among the strings of the model.
ParseFloat(str) ==
  IF str = <<>> THEN NaN
  ELSE IF Head(str) = "-" THEN ParseUnsigned(-1, Tail(str))
  ELSE IF Head(str) = "+" THEN ParseUnsigned(1, Tail(str))
  ELSE ParseUnsigned(1, str)

----------------------------------------------------------------------------
(* calculateInterestRate and calculatePeriods *)

\* const tolerance = 0.0000001
tolerance == Div(One, Num(10000000))

\* const maxIterations = 100
maxIterations == 100

\* let rate = 0.1
InitialGuess == Div(One, Num(10))

\* const f = pv * Math.pow(1 + rate, n) + pmt * ((Math.pow(1 + rate, n) - 1) / rate) - fv
ResidualF(rate, n, pv, pmt, fv) ==
  CHOOSE f \in
    { Sub(Add(Mul(pv, pw), Mul(pmt, Div(Sub(pw, One), rate))), fv) :
      pw \in { MathPow(Add(One, rate), n) } } : TRUE

\* const df = n * pv * Math.pow(1 + rate, n - 1)
\*          + pmt * (n * Math.pow(1 + rate, n - 1) / rate
\*                   - (Math.pow(1 + rate, n) - 1) / (rate * rate))
DerivativeDf(rate, n, pv, pmt) ==
  CHOOSE df \in
    { Add(Mul(Mul(n, pv), pw1),
          Mul(pmt, Sub(Div(Mul(n, pw1), rate),
                       Div(Sub(pw, One), Mul(rate, rate))))) :
      pw \in { MathPow(Add(One, rate), n) },
      pw1 \in { MathPow(Add(One, rate), Sub(n, One)) } } : TRUE

\* An iteration with a guard on the derivative: when df is zero the rate is
\* left where it is instead of being divided by zero.
NewtonStepGuarded(rate, n, pv, pmt, fv) ==
  CHOOSE newRate \in
    { IF IsZero(df) THEN rate
      ELSE Sub(rate, Div(ResidualF(rate, n, pv, pmt, fv), df)) :
      df \in { DerivativeDf(rate, n, pv, pmt) } } : TRUE

\* const newRate = rate - f / df
NewtonStep(rate, n, pv, pmt, fv) ==
  Sub(rate, Div(ResidualF(rate, n, pv, pmt, fv), DerivativeDf(rate, n, pv, pmt)))

\* A loop test that lets the body run once more.
LoopContinuesInclusive(i) == i <= maxIterations

\* i < maxIterations
LoopContinues(i) == i < maxIterations

\* Math.abs(newRate - rate) < tolerance
Converged(newRate, rate) == Less(MathAbs(Sub(newRate, rate)), tolerance)

\* The state of a run of calculateInterestRate at the head of the for loop:
\* the loop counter, the current rate, the number of loop bodies executed,
\* and, once a return statement has run, the value returned and whether it
\* was the return inside the loop.
LoopStart == [i |-> 0, rate |-> InitialGuess, iterations |-> 0,
              returned |-> FALSE, value |-> NaN, converged |-> FALSE]

\* One pass through the head of a loop that reports a failed convergence: it
\* leaves with null instead of rate * 100 when the test of the loop fails.
LoopPassSignalling(st, n, pv, pmt, fv) ==
  IF st.returned THEN st
  ELSE IF ~LoopContinues(st.i)
    THEN [st EXCEPT !.returned = TRUE, !.value = Null]
    ELSE CHOOSE after \in
           { IF Converged(newRate, st.rate)
               THEN [st EXCEPT !.iterations = st.iterations + 1, !.returned = TRUE,
                               !.value = Mul(newRate, Hundred), !.converged = TRUE]
               ELSE [st EXCEPT !.i = st.i + 1, !.rate = newRate,
                               !.iterations = st.iterations + 1] :
             newRate \in { NewtonStep(st.rate, n, pv, pmt, fv) } } : TRUE

\* One pass through the head of a loop that goes on from the old rate: when
\* the convergence test fails the new rate is dropped.
LoopPassKeepingRate(st, n, pv, pmt, fv) ==
  IF st.returned THEN st
  ELSE IF ~LoopContinues(st.i)
    THEN [st EXCEPT !.returned = TRUE, !.value = Mul(st.rate, Hundred)]
    ELSE CHOOSE after \in
           { IF Converged(newRate, st.rate)
               THEN [st EXCEPT !.iterations = st.iterations + 1, !.returned = TRUE,
                               !.value = Mul(newRate, Hundred), !.converged = TRUE]
               ELSE [st EXCEPT !.i = st.i + 1, !.iterations = st.iterations + 1] :
             newRate \in { NewtonStep(st.rate, n, pv, pmt, fv) } } : TRUE

\* One pass through the head of the loop: leave with rate * 100 when the test
\* fails, else run the body, which returns newRate * 100 or updates rate.
LoopPass(st, n, pv, pmt, fv) ==
  IF st.returned THEN st
  ELSE IF ~LoopContinues(st.i)
    THEN [st EXCEPT !.returned = TRUE, !.value = Mul(st.rate, Hundred)]
    ELSE CHOOSE after \in
           { IF Converged(newRate, st.rate)
               THEN [st EXCEPT !.iterations = st.iterations + 1, !.returned = TRUE,
                               !.value = Mul(newRate, Hundred), !.converged = TRUE]
               ELSE [st EXCEPT !.i = st.i + 1, !.rate = newRate,
                               !.iterations = st.iterations + 1] :
             newRate \in { NewtonStep(st.rate, n, pv, pmt, fv) } } : TRUE

\* count passes, one after the other.
RECURSIVE LoopPasses(_, _, _, _, _, _)
LoopPasses(st, count, n, pv, pmt, fv) ==
  IF count = 1 THEN LoopPass(st, n, pv, pmt, fv)
  ELSE CHOOSE after \in
         { LoopPasses(mid, count - count \div 2, n, pv, pmt, fv) :
             mid \in { LoopPasses(st, count \div 2, n, pv, pmt, fv) } } : TRUE

\* The run of calculateInterestRate(n, pv, pmt, fv), followed for LoopFuel
\* passes.
calculateInterestRateRun(n, pv, pmt, fv) ==
  LoopPasses(LoopStart, LoopFuel, n, pv, pmt, fv)

\* function calculateInterestRate(n, pv, pmt, fv): number
calculateInterestRate(n, pv, pmt, fv) == calculateInterestRateRun(n, pv, pmt, fv).value

\* calculatePeriods taking no account of the payment.
calculatePeriodsWithoutPayment(rate, pv, pmt, fv) ==
  IF StrictEq(rate, NumZero) THEN Div(Sub(fv, pv), pmt)
  ELSE CHOOSE out \in
         { Div(MathLog(Div(fv, pv)), MathLog(Add(One, r))) :
           r \in { Div(rate, Hundred) } } : TRUE

\* calculatePeriods taking the logarithm of the magnitude of the ratio.
calculatePeriodsOfMagnitude(rate, pv, pmt, fv) ==
  IF StrictEq(rate, NumZero) THEN Div(Sub(fv, pv), pmt)
  ELSE CHOOSE out \in
         { IF StrictEq(pmt, NumZero)
             THEN Div(MathLog(MathAbs(Div(fv, pv))), MathLog(Add(One, r)))
             ELSE Div(MathLog(MathAbs(Div(Add(Mul(fv, r), pmt), Add(Mul(pv, r), pmt)))),
                      MathLog(Add(One, r))) :
           r \in { Div(rate, Hundred) } } : TRUE

\* function calculatePeriods(rate, pv, pmt, fv): number
calculatePeriods(rate, pv, pmt, fv) ==
  IF StrictEq(rate, NumZero) THEN Div(Sub(fv, pv), pmt)
  ELSE CHOOSE out \in
         { IF StrictEq(pmt, NumZero)
             THEN Div(MathLog(Div(fv, pv)), MathLog(Add(One, r)))
             ELSE Div(MathLog(Div(Add(Mul(fv, r), pmt), Add(Mul(pv, r), pmt))),
                      MathLog(Add(One, r))) :
           r \in { Div(rate, Hundred) } } : TRUE

----------------------------------------------------------------------------
(* The component TimeValueMoneyCalculator *)

VARIABLES
  periods,            \* useKV('tvm-periods', '')
  interestRate,       \* useKV('tvm-rate', '')
  presentValue,       \* useKV('tvm-pv', '')
  payment,            \* useKV('tvm-pmt', '')
  futureValue,        \* useKV('tvm-fv', '')
  calculateVariable,  \* useKV('tvm-calculate', 'fv')
  result,             \* useState<number | null>(null)
  effectPending,      \* a dependency of the effect changed in the last render
  lastRun             \* what the last run of the effect did (not in the code)

\* The other calculators of the application: the keys of useKV they own and
\* the state of their components.
VARIABLES
  kv,                 \* the store of useKV, for the keys credit-* and auto-*
  creditCard,         \* CreditCardCalculator: results, paymentSchedule, its effect
  autoLoan,           \* AutoLoanCalculator: results, amortizationSchedule, its effect
  compound,           \* CompoundInterestCalculator: its useKV strings, results,
                      \* chartData, its effect
  mortgage            \* MortgageCalculator: its useKV strings, results, the two
                      \* schedules, its effect

others == <<kv, creditCard, autoLoan, compound, mortgage>>

vars == <<periods, interestRate, presentValue, payment, futureValue,
          calculateVariable, result, effectPending, lastRun, kv, creditCard,
          autoLoan, compound, mortgage>>

inputs == <<periods, interestRate, presentValue, payment, futureValue>>

\* The items of the Select "calculate-var".
Variables == {"periods", "rate", "pv", "pmt", "fv"}

\* Strings typed into the inputs.
PeriodStrings == { <<>>, <<"2">>, <<"1", "0">>, <<"-", "1">> }

RateStrings == { <<>>, <<"0">>, <<"5", "0">>, <<"7", ".", "5">>, <<"-", "1", "0", "0">> }

PresentValueStrings == { <<>>, <<"1", "0", "0", "0">>, <<"-", "1", "0", "0">> }

PaymentStrings == { <<>>, <<"1", "0", "0">>, <<"5", "0">>, <<"-", "5", "0">> }

FutureValueStrings == { <<>>, <<"2", "0", "0", "0">>, <<"-", "5", "0", "0">>,
                        <<"-", "1", "0", "0">> }

\* if (rate !== 0 && (pv !== 0 || pmt !== 0) && fv !== 0)
GuardPeriods(rate, pv, pmt, fv) ==
  /\ StrictNeq(rate, NumZero)
  /\ StrictNeq(pv, NumZero) \/ StrictNeq(pmt, NumZero)
  /\ StrictNeq(fv, NumZero)

\* if (n > 0 && (pv !== 0 || pmt !== 0) && fv !== 0)
GuardRate(n, pv, pmt, fv) ==
  /\ Greater(n, NumZero)
  /\ StrictNeq(pv, NumZero) \/ StrictNeq(pmt, NumZero)
  /\ StrictNeq(fv, NumZero)

\* The guard of case 'pv' without its test of the rate.
GuardPvAnyRate(n, rate, fv) ==
  /\ Greater(n, NumZero)
  /\ StrictNeq(fv, NumZero)

\* if (n > 0 && rate !== 0 && fv !== 0)
GuardPv(n, rate, fv) ==
  /\ Greater(n, NumZero)
  /\ StrictNeq(rate, NumZero)
  /\ StrictNeq(fv, NumZero)

\* if (n > 0 && rate !== 0 && (pv !== 0 || fv !== 0))
GuardPmt(n, rate, pv, fv) ==
  /\ Greater(n, NumZero)
  /\ StrictNeq(rate, NumZero)
  /\ StrictNeq(pv, NumZero) \/ StrictNeq(fv, NumZero)

\* if (n > 0 && rate >= 0)
GuardFv(n, rate) ==
  /\ Greater(n, NumZero)
  /\ GreaterEq(rate, NumZero)

\* case 'pv', once the guard holds.
SolvePv(n, rate, pmt, fv) ==
  CHOOSE calculatedResult \in
    { IF StrictEq(pmt, NumZero)
        THEN Div(fv, pw)
        ELSE Div(Sub(fv, Mul(pmt, Div(Sub(pw, One), rate))), pw) :
      pw \in { MathPow(Add(One, rate), n) } } : TRUE

\* case 'pmt', once the guard holds.
SolvePmt(n, rate, pv, fv) ==
  CHOOSE calculatedResult \in
    { Div(Sub(fv, Mul(pv, pw)), Div(Sub(pw, One), rate)) :
      pw \in { MathPow(Add(One, rate), n) } } : TRUE

\* case 'fv' with the compound formula at every rate.
SolveFvCompoundOnly(n, rate, pv, pmt) ==
  CHOOSE calculatedResult \in
    { Add(Mul(pv, pw), Mul(pmt, Div(Sub(pw, One), rate))) :
      pw \in { MathPow(Add(One, rate), n) } } : TRUE

\* case 'fv', once the guard holds.
SolveFv(n, rate, pv, pmt) ==
  IF StrictEq(rate, NumZero)
    THEN Add(pv, Mul(pmt, n))
    ELSE CHOOSE calculatedResult \in
           { Add(Mul(pv, pw), Mul(pmt, Div(Sub(pw, One), rate))) :
             pw \in { MathPow(Add(One, rate), n) } } : TRUE

\* const n = parseFloat(periods) || 0, and the same for pv, pmt and fv.
ParseOrZero(str) == OrElse(ParseFloat(str), NumZero)

\* The rate read without the division by 100: the percent as it was typed.
ParseRatePercent(str) == OrElse(ParseFloat(str), NumZero)

\* const rate = parseFloat(interestRate) / 100 || 0
ParseRate(str) == OrElse(Div(ParseFloat(str), Hundred), NumZero)

\* The arguments calculateInterestRate can be called with: the parsed strings
\* of the model that pass the guard of case 'rate'.
SolverInputs ==
  { t \in { <<ParseOrZero(p), ParseOrZero(v), ParseOrZero(a), ParseOrZero(f)>> :
              p \in PeriodStrings, v \in PresentValueStrings,
              a \in PaymentStrings, f \in FutureValueStrings } :
      GuardRate(t[1], t[2], t[3], t[4]) }

\* calculateInterestRate is a pure function: its run on each of these
\* arguments, computed once.
SolverRuns ==
  { <<t, calculateInterestRateRun(t[1], t[2], t[3], t[4])>> : t \in SolverInputs }

\* The run of calculateInterestRate(n, pv, pmt, fv) at the call in case 'rate'.
SolverRun(n, pv, pmt, fv) ==
  (CHOOSE p \in SolverRuns : p[1] = <<n, pv, pmt, fv>>)[2]

\* What a run of the effect that evaluated no formula leaves behind.
NoRun == [evaluated |-> FALSE, returned |-> TRUE, iterations |-> 0,
          converged |-> FALSE, rate |-> Null]

\* What a run of the effect that evaluated a closed formula leaves behind.
FormulaRun == [evaluated |-> TRUE, returned |-> TRUE, iterations |-> 0,
               converged |-> FALSE, rate |-> Null]

\* The outcome of a run of the effect in which no guard held.
NoResult == [calculatedResult |-> Null, run |-> NoRun]

\* The outcome of case 'rate' from the run of calculateInterestRate.
RateOutcome(r) ==
  [calculatedResult |-> r.value,
   run |-> [evaluated |-> TRUE, returned |-> r.returned, iterations |-> r.iterations,
            converged |-> r.converged, rate |-> r.rate]]

\* switch (calculateVariable) { ... } on the parsed inputs.  The arithmetic
\* throws nothing, so the catch block is never entered.
SwitchCalculateVariable(sel, rateStr, n, rate, pv, pmt, fv) ==
  CASE sel = "periods" ->
         IF GuardPeriods(rate, pv, pmt, fv)
           THEN [calculatedResult |-> calculatePeriods(ParseFloat(rateStr), pv, pmt, fv),
                 run |-> FormulaRun]
           ELSE NoResult
    [] sel = "rate" ->
         IF GuardRate(n, pv, pmt, fv) THEN RateOutcome(SolverRun(n, pv, pmt, fv))
         ELSE NoResult
    [] sel = "pv" ->
         IF GuardPv(n, rate, fv)
           THEN [calculatedResult |-> SolvePv(n, rate, pmt, fv), run |-> FormulaRun]
           ELSE NoResult
    [] sel = "pmt" ->
         IF GuardPmt(n, rate, pv, fv)
           THEN [calculatedResult |-> SolvePmt(n, rate, pv, fv), run |-> FormulaRun]
           ELSE NoResult
    [] sel = "fv" ->
         IF GuardFv(n, rate)
           THEN [calculatedResult |-> SolveFv(n, rate, pv, pmt), run |-> FormulaRun]
           ELSE NoResult

\* An effect that reads the field of the selected variable as well: it gives
\* no result while that field still holds a string.
EffectReadingUnknown(sel, periodsStr, rateStr, pvStr, pmtStr, fvStr) ==
  IF \/ sel = "periods" /\ periodsStr # <<>>
     \/ sel = "rate" /\ rateStr # <<>>
     \/ sel = "pv" /\ pvStr # <<>>
     \/ sel = "pmt" /\ pmtStr # <<>>
     \/ sel = "fv" /\ fvStr # <<>>
    THEN NoResult
    ELSE CHOOSE out \in
           { SwitchCalculateVariable(sel, rateStr, n, rate, pv, pmt, fv) :
             n \in { ParseOrZero(periodsStr) },
             rate \in { ParseRate(rateStr) },
             pv \in { ParseOrZero(pvStr) },
             pmt \in { ParseOrZero(pmtStr) },
             fv \in { ParseOrZero(fvStr) } } : TRUE

\* The body of the effect: the parsed inputs, the switch, and the value given
\* to setResult.  run records whether a formula was evaluated and, for 'rate',
\* how calculateInterestRate left its loop.
Effect(sel, periodsStr, rateStr, pvStr, pmtStr, fvStr) ==
  CHOOSE out \in
    { SwitchCalculateVariable(sel, rateStr, n, rate, pv, pmt, fv) :
      n \in { ParseOrZero(periodsStr) },
      rate \in { ParseRate(rateStr) },
      pv \in { ParseOrZero(pvStr) },
      pmt \in { ParseOrZero(pmtStr) },
      fv \in { ParseOrZero(fvStr) } } : TRUE

\* {result !== null && (<Card> ... </Card>)}
CardShown == result # Null

\* The keys of useKV of CreditCardCalculator.
CreditBalanceKey == "credit-balance"

CreditAprKey == "credit-apr"

CreditPaymentTypeKey == "credit-payment-type"

CreditFixedPaymentKey == "credit-fixed-payment"

\* The keys of useKV of AutoLoanCalculator.
AutoLoanAmountKey == "auto-loan-amount"

\* A calculator that keeps its rate under the key of the credit card's APR.
SharedRateKey == "credit-apr"

AutoInterestRateKey == "auto-interest-rate"

AutoLoanTermKey == "auto-loan-term"

CreditKeys == {CreditBalanceKey, CreditAprKey, CreditPaymentTypeKey, CreditFixedPaymentKey}

AutoKeys == {AutoLoanAmountKey, AutoInterestRateKey, AutoLoanTermKey}

\* The keys of useKV of TimeValueMoneyCalculator, held by the variables
\* periods, interestRate, presentValue, payment, futureValue and
\* calculateVariable.
TvmKeys == {"tvm-periods", "tvm-rate", "tvm-pv", "tvm-pmt", "tvm-fv", "tvm-calculate"}

\* The keys of useKV of the other calculators.
CompoundKeys ==
  {"compound-principal", "compound-rate", "compound-years", "compound-frequency",
   "compound-deposit", "compound-deposit-freq"}

InflationKeys == {"inflation-current-amount", "inflation-rate", "inflation-years"}

MortgageKeys ==
  {"mortgage-loan-amount", "mortgage-home-price", "mortgage-down-payment-percent", "mortgage-interest-rate",
   "mortgage-loan-term"}

\* The second argument of each useKV: the value of a key that was never set.
DefaultValue(key) == IF key = CreditPaymentTypeKey THEN "minimum" ELSE <<>>

DefaultStore == [key \in CreditKeys \cup AutoKeys |-> DefaultValue(key)]

\* useState of CreditCardCalculator when the component mounts; its effect
\* runs after the first render.
CreditCardMounted ==
  [results |-> [monthsToPayoff |-> 0, totalInterest |-> NumZero,
                totalPaid |-> NumZero, monthlyPayment |-> NumZero],
   paymentSchedule |-> <<>>,
   effectPending |-> TRUE]

\* useState of AutoLoanCalculator when the component mounts.
AutoLoanMounted ==
  [results |-> [monthlyPayment |-> NumZero, totalInterest |-> NumZero,
                totalPaid |-> NumZero],
   amortizationSchedule |-> <<>>,
   effectPending |-> TRUE]

\* useKV and useState of CompoundInterestCalculator when the component mounts
\* on an empty store.
CompoundMounted ==
  [principal |-> <<>>, interestRate |-> <<>>, years |-> <<>>,
   compoundingFreq |-> <<"1", "2">>, additionalDeposit |-> <<>>,
   depositFreq |-> <<"0">>,
   results |-> [finalAmount |-> NumZero, totalInterest |-> NumZero,
                totalDeposits |-> NumZero],
   chartData |-> <<>>,
   effectPending |-> TRUE]

\* useKV and useState of MortgageCalculator when the component mounts on an
\* empty store.
MortgageMounted ==
  [homePrice |-> <<>>, downPaymentPercent |-> <<"1", "0">>, interestRate |-> <<>>,
   loanTerm |-> <<>>,
   results |-> [loanAmount |-> NumZero, monthlyPayment |-> NumZero,
                totalInterest |-> NumZero, totalPaid |-> NumZero],
   yearlySchedule |-> <<>>,
   monthlySchedule |-> <<>>,
   effectPending |-> TRUE]

\* The state after the first render: the defaults of useKV and useState, and
\* the effect scheduled to run.
Init ==
  /\ periods = <<>>
  /\ interestRate = <<>>
  /\ presentValue = <<>>
  /\ payment = <<>>
  /\ futureValue = <<>>
  /\ calculateVariable = "fv"
  /\ result = Null
  /\ effectPending = TRUE
  /\ lastRun = NoRun
  /\ kv = DefaultStore
  /\ creditCard = CreditCardMounted
  /\ autoLoan = AutoLoanMounted
  /\ compound = CompoundMounted
  /\ mortgage = MortgageMounted

\* An effect over a solver that remembers its last answer: once a formula has
\* been evaluated, later runs hand the remembered result to setResult.
RunEffectRemembering ==
  /\ effectPending
  /\ \E out \in { Effect(calculateVariable, periods, interestRate, presentValue,
                         payment, futureValue) } :
       /\ result' = IF lastRun.evaluated THEN result ELSE out.calculatedResult
       /\ lastRun' = IF lastRun.evaluated THEN lastRun ELSE out.run
  /\ effectPending' = FALSE
  /\ UNCHANGED <<inputs, calculateVariable, others>>

\* An effect that calls setResult only with a number: a run in which no guard
\* held leaves the result of an earlier run in place.
RunEffectKeepingResult ==
  /\ effectPending
  /\ \E out \in { Effect(calculateVariable, periods, interestRate, presentValue,
                         payment, futureValue) } :
       /\ result' = IF out.calculatedResult = Null THEN result ELSE out.calculatedResult
       /\ lastRun' = out.run
  /\ effectPending' = FALSE
  /\ UNCHANGED <<inputs, calculateVariable, others>>

\* useEffect(() => { ... setResult(calculatedResult) }, [...]): runs after the
\* render that followed a change of a dependency, before the next event.
RunEffect ==
  /\ effectPending
  /\ \E out \in { Effect(calculateVariable, periods, interestRate, presentValue,
                         payment, futureValue) } :
       /\ result' = out.calculatedResult
       /\ lastRun' = out.run
  /\ effectPending' = FALSE
  /\ UNCHANGED <<inputs, calculateVariable, others>>

\* onChange of the input "periods"; the input is disabled while it is the
\* variable to calculate.
SetPeriods ==
  /\ ~effectPending
  /\ calculateVariable # "periods"
  /\ \E v \in PeriodStrings \ {periods} : periods' = v
  /\ effectPending' = TRUE
  /\ UNCHANGED <<interestRate, presentValue, payment, futureValue,
                 calculateVariable, result, lastRun, others>>

\* onChange of the input "interest-rate".
SetInterestRate ==
  /\ ~effectPending
  /\ calculateVariable # "rate"
  /\ \E v \in RateStrings \ {interestRate} : interestRate' = v
  /\ effectPending' = TRUE
  /\ UNCHANGED <<periods, presentValue, payment, futureValue,
                 calculateVariable, result, lastRun, others>>

\* onChange of the input "present-value".
SetPresentValue ==
  /\ ~effectPending
  /\ calculateVariable # "pv"
  /\ \E v \in PresentValueStrings \ {presentValue} : presentValue' = v
  /\ effectPending' = TRUE
  /\ UNCHANGED <<periods, interestRate, payment, futureValue,
                 calculateVariable, result, lastRun, others>>

\* onChange of the input "payment".
SetPayment ==
  /\ ~effectPending
  /\ calculateVariable # "pmt"
  /\ \E v \in PaymentStrings \ {payment} : payment' = v
  /\ effectPending' = TRUE
  /\ UNCHANGED <<periods, interestRate, presentValue, futureValue,
                 calculateVariable, result, lastRun, others>>

\* onChange of the input "future-value".
SetFutureValue ==
  /\ ~effectPending
  /\ calculateVariable # "fv"
  /\ \E v \in FutureValueStrings \ {futureValue} : futureValue' = v
  /\ effectPending' = TRUE
  /\ UNCHANGED <<periods, interestRate, presentValue, payment,
                 calculateVariable, result, lastRun, others>>

\* A selector that clears the field of the variable it selects.
SetCalculateVariableClearing ==
  /\ ~effectPending
  /\ \E v \in Variables \ {calculateVariable} :
       /\ calculateVariable' = v
       /\ periods' = IF v = "periods" THEN <<>> ELSE periods
       /\ interestRate' = IF v = "rate" THEN <<>> ELSE interestRate
       /\ presentValue' = IF v = "pv" THEN <<>> ELSE presentValue
       /\ payment' = IF v = "pmt" THEN <<>> ELSE payment
       /\ futureValue' = IF v = "fv" THEN <<>> ELSE futureValue
  /\ effectPending' = TRUE
  /\ UNCHANGED <<result, lastRun, others>>

\* onValueChange of the Select "calculate-var".
SetCalculateVariable ==
  /\ ~effectPending
  /\ \E v \in Variables \ {calculateVariable} : calculateVariable' = v
  /\ effectPending' = TRUE
  /\ UNCHANGED <<inputs, result, lastRun, others>>

Next ==
  \/ RunEffect
  \/ SetPeriods
  \/ SetInterestRate
  \/ SetPresentValue
  \/ SetPayment
  \/ SetFutureValue
  \/ SetCalculateVariable

Spec == Init /\ [][Next]_vars

----------------------------------------------------------------------------
(* The inputs as the effect reads them *)

\* const n = parseFloat(periods) || 0
ParsedPeriods == ParseOrZero(periods)

\* const rate = parseFloat(interestRate) / 100 || 0
ParsedRate == ParseRate(interestRate)

\* const pv = parseFloat(presentValue) || 0
ParsedPresentValue == ParseOrZero(presentValue)

\* const pmt = parseFloat(payment) || 0
ParsedPayment == ParseOrZero(payment)

\* const fv = parseFloat(futureValue) || 0
ParsedFutureValue == ParseOrZero(futureValue)

\* The effect has run on the inputs and the selection of the state: result is
\* what setResult was given for them.
Settled == ~effectPending

\* fv * rate + pmt, the dividend of the ratio of calculatePeriods.
RatioDividend == Add(Mul(ParsedFutureValue, ParsedRate), ParsedPayment)

\* pv * rate + pmt, the divisor of the ratio of calculatePeriods.
RatioDivisor == Add(Mul(ParsedPresentValue, ParsedRate), ParsedPayment)

\* x <= 0
NotPositive(x) == Less(x, NumZero) \/ StrictEq(x, NumZero)

\* A result that is a finite number.
FiniteResult == result # Null /\ IsFinite(result)

----------------------------------------------------------------------------
(* Claims C1 - C5 *)

\* C1 (as stated): for every selector and every combination of inputs, the
\* result handed to the display is a finite number or null; a NaN or an
\* infinity produced by a formula is never stored as the result.
\* The code stores whatever the formula gave: this is violated.
C1_ResultFiniteOrNull == result = Null \/ IsFinite(result)

\* C2: whenever the guard of the selected branch fails for one of the reasons
\* listed (periods: rate = 0, or PV = 0 and PMT = 0, or FV = 0; rate: n <= 0,
\* or PV = 0 and PMT = 0, or FV = 0; pv: n <= 0 or rate = 0; pmt: n <= 0 or
\* rate = 0; fv: n <= 0 or rate < 0), the effect runs to its setResult with
\* null, it evaluated no formula, and the result card is not displayed.
C2_GuardNotMetGivesNull ==
  ( /\ Settled
    /\ \/ /\ calculateVariable = "periods"
          /\ \/ StrictEq(ParsedRate, NumZero)
             \/ StrictEq(ParsedPresentValue, NumZero) /\ StrictEq(ParsedPayment, NumZero)
             \/ StrictEq(ParsedFutureValue, NumZero)
       \/ /\ calculateVariable = "rate"
          /\ \/ NotPositive(ParsedPeriods)
             \/ StrictEq(ParsedPresentValue, NumZero) /\ StrictEq(ParsedPayment, NumZero)
             \/ StrictEq(ParsedFutureValue, NumZero)
       \/ /\ calculateVariable \in {"pv", "pmt"}
          /\ \/ NotPositive(ParsedPeriods)
             \/ StrictEq(ParsedRate, NumZero)
       \/ /\ calculateVariable = "fv"
          /\ \/ NotPositive(ParsedPeriods)
             \/ Less(ParsedRate, NumZero) )
  => /\ result = Null
     /\ ~lastRun.evaluated
     /\ ~CardShown

\* C2, its case: 'pv' is selected with a rate of zero while the periods are
\* positive and the future value is not zero, and there is no result.
C2_Witness ==
  /\ Settled
  /\ calculateVariable = "pv"
  /\ StrictEq(ParsedRate, NumZero)
  /\ Greater(ParsedPeriods, NumZero)
  /\ StrictNeq(ParsedFutureValue, NumZero)
  /\ result = Null
  /\ ~lastRun.evaluated

\* C3: every call of calculateInterestRate returns, after at most 100 passes
\* through the body of its loop, whatever the iterates become.
C3_AtMostMaxIterations ==
  (Settled /\ calculateVariable = "rate" /\ lastRun.evaluated)
  => /\ lastRun.returned
     /\ lastRun.iterations <= maxIterations

\* C3, its case: a call whose iterates became NaN, which no tolerance test can
\* pass, has returned after 100 passes.
C3_Witness ==
  /\ Settled
  /\ calculateVariable = "rate"
  /\ lastRun.evaluated
  /\ lastRun.returned
  /\ lastRun.iterations = maxIterations
  /\ IsNaN(lastRun.rate)

\* C4: a call of calculateInterestRate that met the tolerance test in none of
\* its 100 passes returns the last iterate times 100; the effect stores it as
\* the result, a number like any other, and the result card is displayed.
C4_NonConvergenceIsSilent ==
  (Settled /\ calculateVariable = "rate" /\ lastRun.evaluated /\ ~lastRun.converged)
  => /\ lastRun.iterations = maxIterations
     /\ result = Mul(lastRun.rate, Hundred)
     /\ result # Null
     /\ CardShown

\* C4, its case: a call that did not converge left a finite number as the
\* result.
C4_Witness ==
  /\ Settled
  /\ calculateVariable = "rate"
  /\ lastRun.evaluated
  /\ ~lastRun.converged
  /\ lastRun.iterations = maxIterations
  /\ FiniteResult
  /\ CardShown

\* C5: solving for periods with a rate that is not zero and no payment, when
\* PV and FV have opposite signs or one of them is zero, there is no result
\* or the result is not finite; it is never a finite number of periods.
C5_NoFinitePeriodsWithoutPositiveRatio ==
  ( /\ Settled
    /\ calculateVariable = "periods"
    /\ StrictNeq(ParsedRate, NumZero)
    /\ StrictEq(ParsedPayment, NumZero)
    /\ \/ IsZero(ParsedPresentValue)
       \/ IsZero(ParsedFutureValue)
       \/ ParsedPresentValue.s # ParsedFutureValue.s )
  => ~FiniteResult

\* C5, its case: PV and FV of opposite signs went through the logarithm, and
\* the result is NaN.
C5_Witness ==
  /\ Settled
  /\ calculateVariable = "periods"
  /\ StrictNeq(ParsedRate, NumZero)
  /\ StrictEq(ParsedPayment, NumZero)
  /\ ~IsZero(ParsedPresentValue)
  /\ ~IsZero(ParsedFutureValue)
  /\ ParsedPresentValue.s # ParsedFutureValue.s
  /\ lastRun.evaluated
  /\ IsNaN(result)

----------------------------------------------------------------------------
(* Claims C6 - C10 *)

\* C6 (as stated): solving for periods with a rate and a payment that are not
\* zero, whenever FV*r + PMT or PV*r + PMT is zero or negative (both being
\* negative included), the result is not a finite number of periods.
\* Two negative terms have a positive ratio: this is violated.
C6_BothTermsMustBePositive ==
  ( /\ Settled
    /\ calculateVariable = "periods"
    /\ StrictNeq(ParsedRate, NumZero)
    /\ StrictNeq(ParsedPayment, NumZero)
    /\ NotPositive(RatioDividend) \/ NotPositive(RatioDivisor) )
  => ~FiniteResult

\* C6 (amended): solving for periods with a rate, a payment and a future value
\* that are not zero, the result is ln((FV*r + PMT)/(PV*r + PMT))/ln(1 + r),
\* and it is a finite number only if that ratio is a finite number above zero,
\* which two negative terms give as well as two positive ones.
C6_FiniteOnlyForPositiveRatio ==
  ( /\ Settled
    /\ calculateVariable = "periods"
    /\ StrictNeq(ParsedRate, NumZero)
    /\ StrictNeq(ParsedPayment, NumZero)
    /\ StrictNeq(ParsedFutureValue, NumZero) )
  => /\ result = Div(MathLog(Div(RatioDividend, RatioDivisor)),
                     MathLog(Add(One, ParsedRate)))
     /\ FiniteResult =>
          /\ IsFinite(Div(RatioDividend, RatioDivisor))
          /\ Greater(Div(RatioDividend, RatioDivisor), NumZero)

\* C6, its case: both terms are negative and the result is a finite number.
C6_Witness ==
  /\ Settled
  /\ calculateVariable = "periods"
  /\ StrictNeq(ParsedRate, NumZero)
  /\ StrictNeq(ParsedPayment, NumZero)
  /\ Less(RatioDividend, NumZero)
  /\ Less(RatioDivisor, NumZero)
  /\ lastRun.evaluated
  /\ FiniteResult

\* C7 (as stated): with 'periods' selected, an interest rate of 0 and a payment
\* that is not zero, the result is (FV - PV)/PMT.
\* The guard of case 'periods' refuses a rate of 0: this is violated.
C7_LinearPeriodsAtZeroRate ==
  ( /\ Settled
    /\ calculateVariable = "periods"
    /\ StrictEq(ParseFloat(interestRate), NumZero)
    /\ StrictNeq(ParsedPayment, NumZero) )
  => result = Div(Sub(ParsedFutureValue, ParsedPresentValue), ParsedPayment)

C9_PresentValue ==
  ( /\ Settled
    /\ calculateVariable = "pv"
    /\ Greater(ParsedPeriods, NumZero)
    /\ StrictNeq(ParsedRate, NumZero) )
  => result =
       IF StrictEq(ParsedPayment, NumZero)
         THEN Div(ParsedFutureValue, MathPow(Add(One, ParsedRate), ParsedPeriods))
         ELSE Div(Sub(ParsedFutureValue,
                      Mul(ParsedPayment,
                          Div(Sub(MathPow(Add(One, ParsedRate), ParsedPeriods), One),
                              ParsedRate))),
                  MathPow(Add(One, ParsedRate), ParsedPeriods))

\* C10 (as stated): solving for PMT, every n > 0 and r # 0 give the result
\* (FV - PV*(1+r)^n)/(((1+r)^n - 1)/r), whatever PV and FV are, zero included.
\* The guard of case 'pmt' refuses PV = 0 together with FV = 0: this is
\* violated.
C10_Payment ==
  ( /\ Settled
    /\ calculateVariable = "pmt"
    /\ Greater(ParsedPeriods, NumZero)
    /\ StrictNeq(ParsedRate, NumZero) )
  => result =
       Div(Sub(ParsedFutureValue,
               Mul(ParsedPresentValue, MathPow(Add(One, ParsedRate), ParsedPeriods))),
           Div(Sub(MathPow(Add(One, ParsedRate), ParsedPeriods), One), ParsedRate))

----------------------------------------------------------------------------
(* The states in which the code departs from C1, C7, C9 and C10 *)

\* C1, its case: 'pv' is selected with n = 2, a rate of -100 % and FV = -100;
\* (1 + r)^n is 0, the result is -Infinity and the result card is displayed.
C1_Witness ==
  /\ Settled
  /\ calculateVariable = "pv"
  /\ periods = <<"2">>
  /\ interestRate = <<"-", "1", "0", "0">>
  /\ payment = <<>>
  /\ futureValue = <<"-", "1", "0", "0">>
  /\ result = Infinity(-1)
  /\ CardShown

\* C7, its case: 'periods' is selected with a rate of 0, PV = 1000, PMT = 100
\* and FV = 2000; (FV - PV)/PMT is 10 and there is no result.
C7_Witness ==
  /\ Settled
  /\ calculateVariable = "periods"
  /\ interestRate = <<"0">>
  /\ presentValue = <<"1", "0", "0", "0">>
  /\ payment = <<"1", "0", "0">>
  /\ futureValue = <<"2", "0", "0", "0">>
  /\ Div(Sub(ParsedFutureValue, ParsedPresentValue), ParsedPayment) = Num(10)
  /\ calculatePeriods(ParseFloat(interestRate), ParsedPresentValue, ParsedPayment,
                      ParsedFutureValue) = Num(10)
  /\ result = Null

\* C9, its case: 'pv' is selected with n = 2, a rate of 50 %, PMT = 100 and
\* FV = 0; the formula gives a finite number that is not zero and there is no
\* result.
C9_Witness ==
  /\ Settled
  /\ calculateVariable = "pv"
  /\ periods = <<"2">>
  /\ interestRate = <<"5", "0">>
  /\ payment = <<"1", "0", "0">>
  /\ futureValue = <<>>
  /\ IsFinite(SolvePv(ParsedPeriods, ParsedRate, ParsedPayment, ParsedFutureValue))
  /\ ~IsZero(SolvePv(ParsedPeriods, ParsedRate, ParsedPayment, ParsedFutureValue))
  /\ result = Null

\* C10, its case: 'pmt' is selected with n = 2, a rate of 50 %, PV = 0 and
\* FV = 0; the formula gives 0 and there is no result.
C10_Witness ==
  /\ Settled
  /\ calculateVariable = "pmt"
  /\ periods = <<"2">>
  /\ interestRate = <<"5", "0">>
  /\ presentValue = <<>>
  /\ futureValue = <<>>
  /\ IsZero(SolvePmt(ParsedPeriods, ParsedRate, ParsedPresentValue, ParsedFutureValue))
  /\ result = Null

----------------------------------------------------------------------------
(* Claims C11 - C20 *)

\* The distance within which a solver must give back the value a direct formula
\* started from.  The numbers of the model carry Prec bits, and a logarithm
\* of the model is good to about Prec bits after the point.
RoundTripTolerance == Div(One, Num(8))

\* |x - y| < tol
Within(x, y, tol) == Less(MathAbs(Sub(x, y)), tol)

\* calculatePeriods applied to the inputs of the state together with its
\* result as the future value.
PeriodsOfResult ==
  calculatePeriods(ParseFloat(interestRate), ParsedPresentValue, ParsedPayment, result)

RoundTripInputs ==
  { t \in { <<ParseOrZero(p), ParseOrZero(v), ParseOrZero(a),
              SolveFv(ParseOrZero(p), ParseRate(r), ParseOrZero(v), ParseOrZero(a))>> :
              p \in { q \in PeriodStrings : Greater(ParseOrZero(q), NumZero) },
              r \in { q \in RateStrings : Greater(ParseRate(q), NumZero) },
              v \in PresentValueStrings, a \in PaymentStrings } :
      GuardRate(t[1], t[2], t[3], t[4]) }

\* The run of calculateInterestRate on each of these problems, computed once.
RoundTripRuns ==
  { <<t, calculateInterestRateRun(t[1], t[2], t[3], t[4])>> : t \in RoundTripInputs }

\* The run of calculateInterestRate on the inputs of the state together with
\* its result as the future value.
RateRunOfResult ==
  (CHOOSE p \in RoundTripRuns :
     p[1] = <<ParsedPeriods, ParsedPresentValue, ParsedPayment, result>>)[2]

\* C12 (as stated, for r > 0 and a problem that passes the guard of case
\* 'rate'): calculateInterestRate applied to n, PV, PMT and the FV that the FV
\* branch gave for a rate r returns r*100 within tolerance (here within one
\* percentage point; whether the 1e-7 test is met in under 100 passes is not
\* part of this formula).
\* A problem can hold at more than one rate, and the iteration from 0.10 finds
\* another one: this is violated.
C12_RateRoundTrip ==
  ( /\ Settled
    /\ calculateVariable = "fv"
    /\ Greater(ParsedPeriods, NumZero)
    /\ Greater(ParsedRate, NumZero)
    /\ FiniteResult
    /\ GuardRate(ParsedPeriods, ParsedPresentValue, ParsedPayment, result) )
  => Within(RateRunOfResult.value, Mul(ParsedRate, Hundred), One)

\* C12, its case: n = 10, r = 50 %, PV = -100 and PMT = 100 went through the
\* FV branch; calculateInterestRate meets its tolerance test on that problem
\* and returns about 92, not 50.
C12_Witness ==
  /\ Settled
  /\ calculateVariable = "fv"
  /\ periods = <<"1", "0">>
  /\ interestRate = <<"5", "0">>
  /\ presentValue = <<"-", "1", "0", "0">>
  /\ payment = <<"1", "0", "0">>
  /\ FiniteResult
  /\ RateRunOfResult.converged
  /\ Within(RateRunOfResult.value, Num(92), One)

\* The outcome of the effect on the selection and the inputs of the state,
\* computed from nothing else.
EffectNow ==
  Effect(calculateVariable, periods, interestRate, presentValue, payment, futureValue)

\* C13: every solve is deterministic and keeps no state: in whatever order
\* the selections and inputs were reached, the result and the run of
\* calculateInterestRate (from the seed 0.10, with its count of passes) are
\* those of a fresh evaluation on the current selection and inputs.
C13_SolveIsAFunctionOfItsInputs ==
  Settled => /\ result = EffectNow.calculatedResult
             /\ lastRun = EffectNow.run

\* C13, its case: calculateInterestRate has run and met its tolerance test
\* after more than one pass, and the result is the one of a fresh evaluation.
C13_Witness ==
  /\ Settled
  /\ calculateVariable = "rate"
  /\ lastRun.evaluated
  /\ lastRun.converged
  /\ lastRun.iterations > 1
  /\ result = EffectNow.calculatedResult

\* An input that is never disabled.
InputDisabledNever(variable) == FALSE

\* getInputProps(variable).disabled
InputDisabled(variable) == calculateVariable = variable

\* The string stored for the input of a variable.
StoredValue(variable) ==
  CASE variable = "periods" -> periods
    [] variable = "rate" -> interestRate
    [] variable = "pv" -> presentValue
    [] variable = "pmt" -> payment
    [] variable = "fv" -> futureValue

\* value={calculateVariable === variable ? '' : stored}
ShownValue(variable) ==
  IF calculateVariable = variable THEN <<>> ELSE StoredValue(variable)

\* What the branch of the switch for a variable computes from the inputs of
\* the state.
BranchValue(variable) ==
  CASE variable = "periods" ->
         calculatePeriods(ParseFloat(interestRate), ParsedPresentValue, ParsedPayment,
                          ParsedFutureValue)
    [] variable = "rate" ->
         SolverRun(ParsedPeriods, ParsedPresentValue, ParsedPayment,
                   ParsedFutureValue).value
    [] variable = "pv" ->
         SolvePv(ParsedPeriods, ParsedRate, ParsedPayment, ParsedFutureValue)
    [] variable = "pmt" ->
         SolvePmt(ParsedPeriods, ParsedRate, ParsedPresentValue, ParsedFutureValue)
    [] variable = "fv" ->
         SolveFv(ParsedPeriods, ParsedRate, ParsedPresentValue, ParsedPayment)

\* C14, in every state: one of the five variables is selected; the input of
\* exactly that variable is disabled and shown empty, the other four are
\* enabled and show their stored strings; a result that was computed is the
\* one of the branch of the selected variable.
C14_OneUnknownState ==
  /\ calculateVariable \in Variables
  /\ Cardinality({ v \in Variables : InputDisabled(v) }) = 1
  /\ InputDisabled(calculateVariable)
  /\ \A v \in Variables :
       IF InputDisabled(v) THEN ShownValue(v) = <<>>
       ELSE ShownValue(v) = StoredValue(v)
  /\ (Settled /\ lastRun.evaluated) => result = BranchValue(calculateVariable)

\* C14, in every step: the string of an input changes only while that input
\* is enabled.
C14_OneUnknownStep ==
  \A v \in Variables :
    (StoredValue(v))' # StoredValue(v) => ~InputDisabled(v)

\* C14: exactly one of the five variables is the selected unknown, initially
\* fv, in every reachable state: the input of exactly that variable is
\* disabled and shown empty, the other four are editable and only they are
\* edited, and the dispatcher computes exactly that variable.
C14_OneSelectedUnknown ==
  /\ calculateVariable = "fv"
  /\ []C14_OneUnknownState
  /\ [][C14_OneUnknownStep]_vars

\* C14, its case: 'pmt' is selected while a payment typed earlier is still
\* stored; its input is disabled and shown empty, and the result is the one
\* of the payment branch.
C14_Witness ==
  /\ Settled
  /\ calculateVariable = "pmt"
  /\ payment # <<>>
  /\ InputDisabled("pmt")
  /\ ShownValue("pmt") = <<>>
  /\ ~InputDisabled("fv")
  /\ ShownValue("fv") = futureValue
  /\ lastRun.evaluated
  /\ result = BranchValue("pmt")

\* The guard of the branch of the selected variable, on the inputs of the
\* state.
GuardSelected ==
  CASE calculateVariable = "periods" ->
         GuardPeriods(ParsedRate, ParsedPresentValue, ParsedPayment, ParsedFutureValue)
    [] calculateVariable = "rate" ->
         GuardRate(ParsedPeriods, ParsedPresentValue, ParsedPayment, ParsedFutureValue)
    [] calculateVariable = "pv" ->
         GuardPv(ParsedPeriods, ParsedRate, ParsedFutureValue)
    [] calculateVariable = "pmt" ->
         GuardPmt(ParsedPeriods, ParsedRate, ParsedPresentValue, ParsedFutureValue)
    [] calculateVariable = "fv" ->
         GuardFv(ParsedPeriods, ParsedRate)

\* C15: after any sequence of edits and selections, once the recomputation
\* triggered by the last change has run, the result is the value of the
\* selected branch on the current selection and inputs only; when the current
\* inputs fail the guard the result is null, whatever was computed for
\* earlier inputs, and no card is shown.
C15_NoStaleResult ==
  Settled => IF GuardSelected THEN result = BranchValue(calculateVariable)
             ELSE result = Null /\ ~CardShown

\* C15, its case: an edit has left inputs that fail the guard while the result
\* of the earlier inputs is still displayed, and the recomputation is about
\* to run.
C15_Witness ==
  /\ effectPending
  /\ lastRun.evaluated
  /\ result # Null
  /\ ~GuardSelected

\* C16: whenever the calculator produces a result for the number of periods,
\* that result is greater than zero.
C16_PeriodsResultPositive ==
  (Settled /\ calculateVariable = "periods" /\ result # Null)
  => Greater(result, NumZero)

\* C16, its case: a result is displayed for the number of periods, the rate
\* is 50 %, the present value is empty, the payment is 100 and the future
\* value is -100, and the result is a finite number below zero.
C16_Witness ==
  /\ Settled
  /\ calculateVariable = "periods"
  /\ interestRate = <<"5", "0">>
  /\ presentValue = <<>>
  /\ payment = <<"1", "0", "0">>
  /\ futureValue = <<"-", "1", "0", "0">>
  /\ IsFinite(result)
  /\ Less(result, NumZero)

----------------------------------------------------------------------------
(* The component CreditCardCalculator *)

\* Math.max(x, y): NaN when either is NaN; +0 is larger than -0.
MathMax(x, y) ==
  CHOOSE out \in
    { IF IsNaN(a) \/ IsNaN(b) THEN NaN
      ELSE IF Less(a, b) THEN b
      ELSE IF Less(b, a) THEN a
      ELSE IF IsZero(a) /\ a.s = -1 THEN b
      ELSE a : a \in {x}, b \in {y} } : TRUE

\* Math.min(x, y): NaN when either is NaN; -0 is smaller than +0.
MathMin(x, y) ==
  CHOOSE out \in
    { IF IsNaN(a) \/ IsNaN(b) THEN NaN
      ELSE IF Less(a, b) THEN a
      ELSE IF Less(b, a) THEN b
      ELSE IF IsZero(a) /\ a.s = 1 THEN b
      ELSE a : a \in {x}, b \in {y} } : TRUE

\* The literal 0.01: the balance below which the debt counts as paid, and the
\* share of the balance in the minimum payment.
Cent == Div(One, Hundred)

\* The floor of the minimum payment.
MinimumPaymentFloor == Num(25)

\* const maxMonths = 600
maxMonths == 600

\* Strings typed into the inputs of the credit card calculator.
BalanceStrings == { <<>>, <<"1", "0", "0", "0">>, <<"1", "0", "0", "0", "0", "0", "0">>,
                    <<"0", ".", "0", "1">> }

\* The last one is 2 * 10^17 %.
AprStrings == { <<>>, <<"2", "4">>, <<"0">>,
                <<"2", "0", "0", "0", "0", "0", "0", "0", "0",
                  "0", "0", "0", "0", "0", "0", "0", "0", "0">> }

FixedPaymentStrings == { <<>>, <<"5", "0", "0">>, <<"1", "0">> }

\* The items of the Select "payment-type".
PaymentTypes == {"minimum", "fixed"}

\* The variables of the payoff loop before its first test.
PayoffStart(currentBalance) ==
  [remainingBalance |-> currentBalance, month |-> 0, totalInterestPaid |-> NumZero,
   schedule |-> <<>>, done |-> FALSE]

\* The payment of a month before it is capped: interest + 1% of the balance
\* with a floor of 25, or the fixed payment.
PaymentOfType(paymentType, fixedPmt, remainingBalance, interestPayment) ==
  IF paymentType = "minimum"
    THEN MathMax(Add(interestPayment, Mul(remainingBalance, Cent)), MinimumPaymentFloor)
    ELSE fixedPmt

\* The rest of the loop body once the payment of the month is known.
PayoffMonth(st, interestPayment, capped) ==
  CHOOSE after \in
    { [st EXCEPT !.month = st.month + 1,
                 !.remainingBalance = balance,
                 !.totalInterestPaid = Add(st.totalInterestPaid, interestPayment),
                 !.schedule = Append(st.schedule,
                                [month |-> st.month + 1,
                                 payment |-> capped,
                                 principal |-> Sub(capped, interestPayment),
                                 interest |-> interestPayment,
                                 balance |-> balance,
                                 year |-> (st.month + 12) \div 12])] :
      balance \in { MathMax(NumZero, Sub(st.remainingBalance,
                                         Sub(capped, interestPayment))) } } : TRUE

\* A loop test without the limit on the months.
PayoffContinuesToZero(st) == Greater(st.remainingBalance, Cent)

\* while (remainingBalance > 0.01 && month < maxMonths)
PayoffContinues(st) == Greater(st.remainingBalance, Cent) /\ st.month < maxMonths

\* The loop body once the interest of the month is known: the payment is
\* capped at the balance plus the interest.
PayoffBody(st, paymentType, fixedPmt, interestPayment) ==
  CHOOSE after \in
    { PayoffMonth(st, interestPayment, capped) :
      capped \in { MathMin(PaymentOfType(paymentType, fixedPmt, st.remainingBalance,
                                          interestPayment),
                            Add(st.remainingBalance, interestPayment)) } } : TRUE

\* One pass through the head of the while loop: leave when the test fails,
\* else run the body.
PayoffPass(st, monthlyRate, paymentType, fixedPmt) ==
  IF st.done THEN st
  ELSE IF ~PayoffContinues(st) THEN [st EXCEPT !.done = TRUE]
  ELSE CHOOSE after \in
         { PayoffBody(st, paymentType, fixedPmt, interestPayment) :
           interestPayment \in { Mul(st.remainingBalance, monthlyRate) } } : TRUE

\* count passes, one after the other.
RECURSIVE PayoffPasses(_, _, _, _, _)
PayoffPasses(st, count, monthlyRate, paymentType, fixedPmt) ==
  IF count = 1 THEN PayoffPass(st, monthlyRate, paymentType, fixedPmt)
  ELSE CHOOSE after \in
         { PayoffPasses(mid, count - count \div 2, monthlyRate, paymentType, fixedPmt) :
             mid \in { PayoffPasses(st, count \div 2, monthlyRate, paymentType,
                                    fixedPmt) } } : TRUE

\* The while loop from its first test to the test that ends it: at most
\* maxMonths bodies and one more test.
PayoffLoop(currentBalance, monthlyRate, paymentType, fixedPmt) ==
  PayoffPasses(PayoffStart(currentBalance), maxMonths + 1, monthlyRate, paymentType,
               fixedPmt)

\* What the effect hands to setResults and setPaymentSchedule when the guard
\* holds, from the variables of the loop after it ended.
PayoffOutcome(currentBalance, st) ==
  [results |-> [monthsToPayoff |-> st.month,
                totalInterest |-> st.totalInterestPaid,
                totalPaid |-> Add(currentBalance, st.totalInterestPaid),
                monthlyPayment |-> IF Len(st.schedule) > 0 THEN st.schedule[1].payment
                                   ELSE NumZero],
   paymentSchedule |-> st.schedule]

\* The else branch of the effect: the results are reset.
PayoffReset ==
  [results |-> [monthsToPayoff |-> 0, totalInterest |-> NumZero,
                totalPaid |-> NumZero, monthlyPayment |-> NumZero],
   paymentSchedule |-> <<>>]

\* if (currentBalance > 0 && annualRate > 0)
GuardPayoff(currentBalance, annualRate) ==
  Greater(currentBalance, NumZero) /\ Greater(annualRate, NumZero)

\* The body of the effect of CreditCardCalculator on the strings of the store.
CreditCardEffect(balance, apr, paymentType, fixedPayment) ==
  CHOOSE out \in
    { IF GuardPayoff(currentBalance, annualRate)
        THEN CHOOSE o \in
               { PayoffOutcome(currentBalance, st) :
                 st \in { PayoffLoop(currentBalance, Div(annualRate, Num(12)),
                                     paymentType, ParseOrZero(fixedPayment)) } } : TRUE
        ELSE PayoffReset :
      currentBalance \in { ParseOrZero(balance) }, annualRate \in { ParseRate(apr) } } : TRUE

\* The effect is a pure function of its four dependencies: its outcome on
\* each combination of the strings of the model, computed once.
CreditCardEffects ==
  { <<t, CreditCardEffect(t[1], t[2], t[3], t[4])>> :
      t \in BalanceStrings \X AprStrings \X PaymentTypes \X FixedPaymentStrings }

\* The outcome of the effect on the values of the store.
CreditCardOutcome(store) ==
  (CHOOSE p \in CreditCardEffects :
     p[1] = <<store[CreditBalanceKey], store[CreditAprKey],
              store[CreditPaymentTypeKey], store[CreditFixedPaymentKey]>>)[2]

\* useEffect(() => { ... }, [balance, apr, paymentType, fixedPayment])
RunCreditCardEffect ==
  /\ creditCard.effectPending
  /\ \E out \in { CreditCardOutcome(kv) } :
       creditCard' = [results |-> out.results,
                      paymentSchedule |-> out.paymentSchedule,
                      effectPending |-> FALSE]
  /\ UNCHANGED <<kv, autoLoan>>
  /\ UNCHANGED <<inputs, calculateVariable, result, effectPending, lastRun, compound,
                 mortgage>>

\* onChange of the input "balance".
SetBalance ==
  /\ ~creditCard.effectPending
  /\ \E v \in BalanceStrings \ {kv[CreditBalanceKey]} :
       kv' = [kv EXCEPT ![CreditBalanceKey] = v]
  /\ creditCard' = [creditCard EXCEPT !.effectPending = TRUE]
  /\ UNCHANGED autoLoan
  /\ UNCHANGED <<inputs, calculateVariable, result, effectPending, lastRun, compound,
                 mortgage>>

\* onChange of the input "apr".
SetApr ==
  /\ ~creditCard.effectPending
  /\ \E v \in AprStrings \ {kv[CreditAprKey]} :
       kv' = [kv EXCEPT ![CreditAprKey] = v]
  /\ creditCard' = [creditCard EXCEPT !.effectPending = TRUE]
  /\ UNCHANGED autoLoan
  /\ UNCHANGED <<inputs, calculateVariable, result, effectPending, lastRun, compound,
                 mortgage>>

\* onValueChange of the Select "payment-type".
SetPaymentType ==
  /\ ~creditCard.effectPending
  /\ \E v \in PaymentTypes \ {kv[CreditPaymentTypeKey]} :
       kv' = [kv EXCEPT ![CreditPaymentTypeKey] = v]
  /\ creditCard' = [creditCard EXCEPT !.effectPending = TRUE]
  /\ UNCHANGED autoLoan
  /\ UNCHANGED <<inputs, calculateVariable, result, effectPending, lastRun, compound,
                 mortgage>>

\* onChange of the input "fixed-payment", which is rendered while the payment
\* type is 'fixed'.
SetFixedPayment ==
  /\ ~creditCard.effectPending
  /\ kv[CreditPaymentTypeKey] = "fixed"
  /\ \E v \in FixedPaymentStrings \ {kv[CreditFixedPaymentKey]} :
       kv' = [kv EXCEPT ![CreditFixedPaymentKey] = v]
  /\ creditCard' = [creditCard EXCEPT !.effectPending = TRUE]
  /\ UNCHANGED autoLoan
  /\ UNCHANGED <<inputs, calculateVariable, result, effectPending, lastRun, compound,
                 mortgage>>

\* The events and the effect of CreditCardCalculator.
NextCreditCard ==
  \/ RunCreditCardEffect
  \/ SetBalance
  \/ SetApr
  \/ SetPaymentType
  \/ SetFixedPayment

\* The credit card calculator alone, from a store that holds no key yet.
SpecCreditCard == Init /\ [][NextCreditCard]_vars

----------------------------------------------------------------------------
(* The component AutoLoanCalculator *)

\* parseInt: the whole number written by the longest prefix sign? digits+;
\* NaN when there is no digit.
ParseInt(str) ==
  CHOOSE out \in
    { IF DigitPrefixLen(body) = 0 THEN NaN
      ELSE Round(IF str # <<>> /\ Head(str) = "-" THEN -1 ELSE 1,
                 DigitsVal(SubSeq(body, 1, DigitPrefixLen(body))), 0, FALSE) :
      body \in { IF str # <<>> /\ Head(str) \in {"-", "+"} THEN Tail(str) ELSE str } } : TRUE

\* Strings typed into the inputs of the auto loan calculator.
LoanAmountStrings == { <<>>, <<"3", "6", "0", "0">>, <<"7", "2", "0", "0">> }

LoanRateStrings == { <<>>, <<"0">>, <<"1", "0", "0", "0", "0">> }

LoanTermStrings == { <<>>, <<"1">>, <<"2">>, <<"3", "0">> }

\* if (principal > 0 && annualRate >= 0 && years > 0)
GuardLoan(principal, annualRate, years) ==
  /\ Greater(principal, NumZero)
  /\ GreaterEq(annualRate, NumZero)
  /\ Greater(years, NumZero)

\* monthlyPayment: principal / numberOfPayments at 0 %, else
\* principal * (r (1 + r)^n / ((1 + r)^n - 1)).
MonthlyPayment(principal, annualRate, monthlyRate, numberOfPayments) ==
  IF StrictEq(annualRate, NumZero) THEN Div(principal, numberOfPayments)
  ELSE CHOOSE out \in
         { Mul(principal, Div(Mul(monthlyRate, pw), Sub(pw, One))) :
           pw \in { MathPow(Add(One, monthlyRate), numberOfPayments) } } : TRUE

\* The variables of the schedule loop before its first pass.
ScheduleStart(principal) ==
  [remainingBalance |-> principal, totalInterestPaid |-> NumZero, schedule |-> <<>>]

\* The rest of the body of the for loop once the interest of the month is
\* known.
ScheduleMonth(st, monthlyPayment, interestPayment) ==
  CHOOSE after \in
    { [remainingBalance |-> balance,
       totalInterestPaid |-> Add(st.totalInterestPaid, interestPayment),
       schedule |-> Append(st.schedule,
                      [month |-> Len(st.schedule) + 1,
                       payment |-> monthlyPayment,
                       principal |-> Sub(monthlyPayment, interestPayment),
                       interest |-> interestPayment,
                       balance |-> balance])] :
      balance \in { MathMax(NumZero, Sub(st.remainingBalance,
                                         Sub(monthlyPayment, interestPayment))) } } : TRUE

\* count passes of the for loop, one after the other.
RECURSIVE SchedulePasses(_, _, _, _)
SchedulePasses(st, count, monthlyRate, monthlyPayment) ==
  IF count = 0 THEN st
  ELSE IF count = 1
    THEN CHOOSE after \in
           { ScheduleMonth(st, monthlyPayment, interestPayment) :
             interestPayment \in { Mul(st.remainingBalance, monthlyRate) } } : TRUE
  ELSE CHOOSE after \in
         { SchedulePasses(mid, count - count \div 2, monthlyRate, monthlyPayment) :
             mid \in { SchedulePasses(st, count \div 2, monthlyRate, monthlyPayment) } } : TRUE

\* What the effect hands to setResults and setAmortizationSchedule when the
\* guard holds.
LoanOutcome(principal, monthlyPayment, st) ==
  [results |-> [monthlyPayment |-> monthlyPayment,
                totalInterest |-> st.totalInterestPaid,
                totalPaid |-> Add(principal, st.totalInterestPaid)],
   amortizationSchedule |-> st.schedule]

\* The else branch of the effect: the results are reset.
LoanReset ==
  [results |-> [monthlyPayment |-> NumZero, totalInterest |-> NumZero,
                totalPaid |-> NumZero],
   amortizationSchedule |-> <<>>]

\* The branch of the effect in which the guard holds; the term is a whole
\* number of years, so the for loop runs years * 12 times.
LoanSchedule(principal, annualRate, monthlyRate, numberOfPayments) ==
  CHOOSE out \in
    { LoanOutcome(principal, monthlyPayment,
                  SchedulePasses(ScheduleStart(principal), ToInt(numberOfPayments),
                                 monthlyRate, monthlyPayment)) :
      monthlyPayment \in { MonthlyPayment(principal, annualRate, monthlyRate,
                                          numberOfPayments) } } : TRUE

\* The body of the effect of AutoLoanCalculator on the strings of the store.
AutoLoanEffect(loanAmount, rateStr, loanTerm) ==
  CHOOSE out \in
    { IF GuardLoan(principal, annualRate, years)
        THEN CHOOSE o \in
               { LoanSchedule(principal, annualRate, monthlyRate, numberOfPayments) :
                 monthlyRate \in { Div(annualRate, Num(12)) },
                 numberOfPayments \in { Mul(years, Num(12)) } } : TRUE
        ELSE LoanReset :
      principal \in { ParseOrZero(loanAmount) },
      annualRate \in { ParseRate(rateStr) },
      years \in { OrElse(ParseInt(loanTerm), NumZero) } } : TRUE

\* The effect is a pure function of its three dependencies: its outcome on
\* each combination of the strings of the model, computed once.
AutoLoanEffects ==
  { <<t, AutoLoanEffect(t[1], t[2], t[3])>> :
      t \in LoanAmountStrings \X LoanRateStrings \X LoanTermStrings }

\* The outcome of the effect on the values of the store.
AutoLoanOutcome(store) ==
  (CHOOSE p \in AutoLoanEffects :
     p[1] = <<store[AutoLoanAmountKey], store[AutoInterestRateKey],
              store[AutoLoanTermKey]>>)[2]

\* useEffect(() => { ... }, [loanAmount, interestRate, loanTerm])
RunAutoLoanEffect ==
  /\ autoLoan.effectPending
  /\ \E out \in { AutoLoanOutcome(kv) } :
       autoLoan' = [results |-> out.results,
                    amortizationSchedule |-> out.amortizationSchedule,
                    effectPending |-> FALSE]
  /\ UNCHANGED <<kv, creditCard>>
  /\ UNCHANGED <<inputs, calculateVariable, result, effectPending, lastRun, compound,
                 mortgage>>

\* onChange of the input "loan-amount".
SetLoanAmount ==
  /\ ~autoLoan.effectPending
  /\ \E v \in LoanAmountStrings \ {kv[AutoLoanAmountKey]} :
       kv' = [kv EXCEPT ![AutoLoanAmountKey] = v]
  /\ autoLoan' = [autoLoan EXCEPT !.effectPending = TRUE]
  /\ UNCHANGED creditCard
  /\ UNCHANGED <<inputs, calculateVariable, result, effectPending, lastRun, compound,
                 mortgage>>

\* onChange of the input "interest-rate" of the auto loan calculator.
SetLoanRate ==
  /\ ~autoLoan.effectPending
  /\ \E v \in LoanRateStrings \ {kv[AutoInterestRateKey]} :
       kv' = [kv EXCEPT ![AutoInterestRateKey] = v]
  /\ autoLoan' = [autoLoan EXCEPT !.effectPending = TRUE]
  /\ UNCHANGED creditCard
  /\ UNCHANGED <<inputs, calculateVariable, result, effectPending, lastRun, compound,
                 mortgage>>

\* onChange of the input "loan-term".
SetLoanTerm ==
  /\ ~autoLoan.effectPending
  /\ \E v \in LoanTermStrings \ {kv[AutoLoanTermKey]} :
       kv' = [kv EXCEPT ![AutoLoanTermKey] = v]
  /\ autoLoan' = [autoLoan EXCEPT !.effectPending = TRUE]
  /\ UNCHANGED creditCard
  /\ UNCHANGED <<inputs, calculateVariable, result, effectPending, lastRun, compound,
                 mortgage>>

\* The events and the effect of AutoLoanCalculator.
NextAutoLoan ==
  \/ RunAutoLoanEffect
  \/ SetLoanAmount
  \/ SetLoanRate
  \/ SetLoanTerm

\* The auto loan calculator alone, from a store that holds no key yet.
SpecAutoLoan == Init /\ [][NextAutoLoan]_vars

----------------------------------------------------------------------------
(* The application: the three calculators over the one store of useKV *)

\* Number of inputs that an explored session of the application holds with a
\* value other than the stored one.
MaxEdited == 1

\* The store of useKV as a whole: the keys of the three calculators with
\* their values.
Store ==
  ("tvm-periods" :> periods) @@ ("tvm-rate" :> interestRate)
    @@ ("tvm-pv" :> presentValue) @@ ("tvm-pmt" :> payment)
    @@ ("tvm-fv" :> futureValue) @@ ("tvm-calculate" :> calculateVariable) @@ kv

\* What useKV holds when a user who has used the three calculators before
\* opens the application.
StoredSession ==
  ("tvm-periods" :> <<"2">>) @@ ("tvm-rate" :> <<"5", "0">>)
    @@ ("tvm-pv" :> <<"1", "0", "0", "0">>) @@ ("tvm-pmt" :> <<>>)
    @@ ("tvm-fv" :> <<>>) @@ ("tvm-calculate" :> "fv")
    @@ (CreditBalanceKey :> <<"1", "0", "0", "0">>) @@ (CreditAprKey :> <<"2", "4">>)
    @@ (CreditPaymentTypeKey :> "fixed") @@ (CreditFixedPaymentKey :> <<"5", "0", "0">>)
    @@ (AutoLoanAmountKey :> <<"3", "6", "0", "0">>) @@ (AutoInterestRateKey :> <<"0">>)
    @@ (AutoLoanTermKey :> <<"1">>)

\* The keys that belong to a Select.
SelectKeys == {"tvm-calculate", CreditPaymentTypeKey}

\* The inputs whose value is not the stored one.
EditedKeys == { key \in (DOMAIN Store) \ SelectKeys : Store[key] # StoredSession[key] }

\* The bound of the exploration: at most MaxEdited inputs are away from their
\* stored value.
WithinSession == Cardinality(EditedKeys) <= MaxEdited

\* The three components mount on the stored values; no effect has run yet.
InitApp ==
  /\ periods = StoredSession["tvm-periods"]
  /\ interestRate = StoredSession["tvm-rate"]
  /\ presentValue = StoredSession["tvm-pv"]
  /\ payment = StoredSession["tvm-pmt"]
  /\ futureValue = StoredSession["tvm-fv"]
  /\ calculateVariable = StoredSession["tvm-calculate"]
  /\ result = Null
  /\ effectPending = TRUE
  /\ lastRun = NoRun
  /\ kv = [key \in CreditKeys \cup AutoKeys |-> StoredSession[key]]
  /\ creditCard = CreditCardMounted
  /\ autoLoan = AutoLoanMounted
  /\ compound = CompoundMounted
  /\ mortgage = MortgageMounted

\* React runs the effects of a render before the browser delivers the next
\* event: an event finds no effect pending in any of the components.
AppIdle ==
  /\ ~effectPending
  /\ ~creditCard.effectPending
  /\ ~autoLoan.effectPending

\* The events and the effects of the three calculators, interleaved.
NextApp ==
  \/ RunEffect
  \/ RunCreditCardEffect
  \/ RunAutoLoanEffect
  \/ AppIdle /\ SetCalculateVariable
  \/ AppIdle /\ SetPaymentType
  \/ AppIdle /\ SetPeriods /\ WithinSession'
  \/ AppIdle /\ SetInterestRate /\ WithinSession'
  \/ AppIdle /\ SetPresentValue /\ WithinSession'
  \/ AppIdle /\ SetPayment /\ WithinSession'
  \/ AppIdle /\ SetFutureValue /\ WithinSession'
  \/ AppIdle /\ SetBalance /\ WithinSession'
  \/ AppIdle /\ SetApr /\ WithinSession'
  \/ AppIdle /\ SetFixedPayment /\ WithinSession'
  \/ AppIdle /\ SetLoanAmount /\ WithinSession'
  \/ AppIdle /\ SetLoanRate /\ WithinSession'
  \/ AppIdle /\ SetLoanTerm /\ WithinSession'

SpecApp == InitApp /\ [][NextApp]_vars

\* The effect of the credit card calculator has run on the values of the
\* store.
CreditCardSettled == ~creditCard.effectPending

\* const currentBalance = parseFloat(balance) || 0
CurrentBalance == ParseOrZero(kv[CreditBalanceKey])

\* const annualRate = parseFloat(apr) / 100 || 0
AnnualRate == ParseRate(kv[CreditAprKey])

\* remainingBalance when the loop ended: the balance of the last row of the
\* schedule, or the starting balance when the loop body never ran.
RemainingBalance ==
  IF Len(creditCard.paymentSchedule) = 0 THEN CurrentBalance
  ELSE creditCard.paymentSchedule[Len(creditCard.paymentSchedule)].balance

\* C18: for every balance > 0 and APR > 0, with the minimum payment and with a
\* fixed payment, the simulation runs until the balance reaches zero: when it
\* has stopped the remaining balance is at most 0.01, and monthsToPayoff is
\* the month of the row in which the balance first got there.
C18_PayoffReachesZero ==
  (CreditCardSettled /\ GuardPayoff(CurrentBalance, AnnualRate))
  => /\ ~Greater(RemainingBalance, Cent)
     /\ creditCard.results.monthsToPayoff = Len(creditCard.paymentSchedule)
     /\ \A i \in 1 .. Len(creditCard.paymentSchedule) - 1 :
          Greater(creditCard.paymentSchedule[i].balance, Cent)

\* C18, its case: a balance of 1000 at 24 % with a fixed payment of 10, which
\* is less than the interest of the first month; the simulation stopped at
\* maxMonths with a balance above the one it started from.
C18_Witness ==
  /\ CreditCardSettled
  /\ kv[CreditBalanceKey] = <<"1", "0", "0", "0">>
  /\ kv[CreditAprKey] = <<"2", "4">>
  /\ kv[CreditPaymentTypeKey] = "fixed"
  /\ kv[CreditFixedPaymentKey] = <<"1", "0">>
  /\ creditCard.results.monthsToPayoff = maxMonths
  /\ Greater(RemainingBalance, CurrentBalance)

\* The effect of the auto loan calculator has run on the values of the store.
AutoLoanSettled == ~autoLoan.effectPending

\* const principal = parseFloat(loanAmount) || 0
Principal == ParseOrZero(kv[AutoLoanAmountKey])

\* const annualRate = parseFloat(interestRate) / 100 || 0
LoanAnnualRate == ParseRate(kv[AutoInterestRateKey])

\* const years = parseInt(loanTerm) || 0
Years == OrElse(ParseInt(kv[AutoLoanTermKey]), NumZero)

\* C19: for every principal > 0, annual rate >= 0 and term > 0 the schedule
\* has years * 12 rows, all with the one monthly payment; in every row the
\* payment is the principal portion plus the interest portion; the balance
\* after the last row is zero (amounts compared to the cent); and at 0 % the
\* payment is principal / (years * 12) and the total interest is 0.
C19_ScheduleAmortizes ==
  (AutoLoanSettled /\ GuardLoan(Principal, LoanAnnualRate, Years))
  => /\ Len(autoLoan.amortizationSchedule) = ToInt(Years) * 12
     /\ \A i \in 1 .. Len(autoLoan.amortizationSchedule) :
          \E row \in { autoLoan.amortizationSchedule[i] } :
            /\ row.payment = autoLoan.results.monthlyPayment
            /\ Within(Add(row.principal, row.interest), row.payment, Cent)
     /\ Len(autoLoan.amortizationSchedule) > 0
     /\ Within(autoLoan.amortizationSchedule[Len(autoLoan.amortizationSchedule)].balance,
               NumZero, Cent)
     /\ StrictEq(LoanAnnualRate, NumZero)
          => /\ StrictEq(autoLoan.results.monthlyPayment,
                         Div(Principal, Num(ToInt(Years) * 12)))
             /\ StrictEq(autoLoan.results.totalInterest, NumZero)

\* C19, its case: 3600 borrowed for 30 years at 10000 %; the schedule has
\* its 360 rows, and the monthly payment and the balance after the last row
\* are NaN.
C19_Witness ==
  /\ AutoLoanSettled
  /\ kv[AutoLoanAmountKey] = <<"3", "6", "0", "0">>
  /\ kv[AutoInterestRateKey] = <<"1", "0", "0", "0", "0">>
  /\ kv[AutoLoanTermKey] = <<"3", "0">>
  /\ Len(autoLoan.amortizationSchedule) = 360
  /\ IsNaN(autoLoan.results.monthlyPayment)
  /\ IsNaN(autoLoan.amortizationSchedule[360].balance)

\* The calculators of the model, by the id of their tab.
Calculators == {"timevalue", "creditcard", "autoloan"}

\* The keys a calculator hands to useKV.
KeysOf(calculator) ==
  CASE calculator = "timevalue" -> TvmKeys
    [] calculator = "creditcard" -> CreditKeys
    [] calculator = "autoloan" -> AutoKeys
    [] calculator = "compound" -> CompoundKeys
    [] calculator = "inflation" -> InflationKeys
    [] calculator = "mortgage" -> MortgageKeys

\* The stored inputs of a calculator: its keys with their values.
StoredInputs(calculator) == [key \in KeysOf(calculator) |-> Store[key]]

\* The computed results of a calculator: what its effect has set.
ComputedResults(calculator) ==
  CASE calculator = "timevalue" -> <<result>>
    [] calculator = "creditcard" -> <<creditCard.results, creditCard.paymentSchedule>>
    [] calculator = "autoloan" -> <<autoLoan.results, autoLoan.amortizationSchedule>>

\* C17, the keys: no key is handed to useKV by two calculators, and the store
\* holds the keys of the three calculators of the model and no other.
C17_KeysOfOneCalculator ==
  /\ \A a, b \in Calculators \cup {"compound", "inflation", "mortgage"} :
       a # b => KeysOf(a) \cap KeysOf(b) = {}
  /\ DOMAIN Store = TvmKeys \cup CreditKeys \cup AutoKeys
  /\ Cardinality(DOMAIN Store) = Cardinality(TvmKeys) + Cardinality(CreditKeys)
                                   + Cardinality(AutoKeys)

\* C17, the steps: a step that changes a stored input of one calculator leaves
\* the stored inputs and the computed results of the other calculators as
\* they were.
C17_EditLeavesOthers ==
  \A c \in Calculators :
    StoredInputs(c)' # StoredInputs(c)
    => \A d \in Calculators \ {c} :
         /\ StoredInputs(d)' = StoredInputs(d)
         /\ ComputedResults(d)' = ComputedResults(d)

\* C17: the calculators share no mutable state: every key of the store
\* belongs to one calculator, and under every interleaving of the edits and
\* effects of the calculators an edit in one leaves the stored inputs and the
\* computed results of every other calculator unchanged.
C17_NoSharedState ==
  /\ []C17_KeysOfOneCalculator
  /\ [][C17_EditLeavesOthers]_vars

\* C17, its case: an input of the auto loan calculator has been edited and
\* its effect has run, while the credit card calculator still shows the
\* payoff of its stored inputs and the TVM calculator its future value.
C17_Witness ==
  /\ AppIdle
  /\ StoredInputs("autoloan") # [key \in AutoKeys |-> StoredSession[key]]
  /\ StoredInputs("creditcard") = [key \in CreditKeys |-> StoredSession[key]]
  /\ StoredInputs("timevalue") = [key \in TvmKeys |-> StoredSession[key]]
  /\ creditCard.results.monthsToPayoff = 3
  /\ Len(autoLoan.amortizationSchedule) > 0
  /\ FiniteResult

\* Whether the last two numbers of a sequence of iterates are less than the
\* tolerance apart.
MeetsTolerance(seq) ==
  Len(seq) >= 2 /\ Converged(seq[Len(seq)], seq[Len(seq) - 1])

\* The Newton-Raphson iterates r_0 = 0.10, r_(k+1) = r_k - f(r_k) / f'(r_k),
\* written down as a sequence: seq[k + 1] is r_k.  Up to count iterates are
\* added; none is added after the first one that is less than the tolerance
\* away from the one before it.
RECURSIVE IteratesFrom(_, _, _, _, _, _)
IteratesFrom(seq, count, n, pv, pmt, fv) ==
  IF count = 1
    THEN IF MeetsTolerance(seq) THEN seq
         ELSE Append(seq, NewtonStep(seq[Len(seq)], n, pv, pmt, fv))
  ELSE CHOOSE out \in
         { IteratesFrom(mid, count - count \div 2, n, pv, pmt, fv) :
           mid \in { IteratesFrom(seq, count \div 2, n, pv, pmt, fv) } } : TRUE

\* r_0 .. r_(k+1) for the arguments of a call, k being the first iteration
\* whose iterate r_(k+1) is less than the tolerance away from r_k; r_0 ..
\* r_maxIterations when there is no such iteration below maxIterations.
IterationsOf(n, pv, pmt, fv) ==
  IteratesFrom(<<InitialGuess>>, maxIterations, n, pv, pmt, fv)

\* The iterates for each of the arguments calculateInterestRate is called
\* with, computed once.
IterationTable ==
  { <<t, IterationsOf(t[1], t[2], t[3], t[4])>> : t \in SolverInputs }

\* The iterates for the inputs of the state.
IterationsNow ==
  (CHOOSE p \in IterationTable :
     p[1] = <<ParsedPeriods, ParsedPresentValue, ParsedPayment, ParsedFutureValue>>)[2]

\* The run of calculateInterestRate on the inputs of the state.
RateRunNow ==
  SolverRun(ParsedPeriods, ParsedPresentValue, ParsedPayment, ParsedFutureValue)

\* C20: calculateInterestRate applies r_(k+1) = r_k - f(r_k) / f'(r_k) from
\* r_0 = 0.10; it stops at the first iteration k at which |r_(k+1) - r_k| is
\* below the tolerance, returns r_(k+1) * 100, the new iterate, and runs no
\* further iteration; while the test fails it goes on with r_(k+1) as the
\* current rate, and after maxIterations iterations it returns the current
\* rate * 100.
C20_NewtonRaphsonIteration ==
  (Settled /\ calculateVariable = "rate"
     /\ GuardRate(ParsedPeriods, ParsedPresentValue, ParsedPayment, ParsedFutureValue))
  => \E seq \in { IterationsNow }, run \in { RateRunNow } :
       /\ seq[1] = Div(One, Num(10))
       /\ lastRun = RateOutcome(run).run
       /\ result = run.value
       /\ run.returned
       /\ run.iterations = Len(seq) - 1
       /\ IF MeetsTolerance(seq)
            THEN /\ run.converged
                 /\ run.rate = seq[Len(seq) - 1]
                 /\ run.value = Mul(seq[Len(seq)], Hundred)
            ELSE /\ ~run.converged
                 /\ run.iterations = maxIterations
                 /\ run.rate = seq[Len(seq)]
                 /\ run.value = Mul(seq[Len(seq)], Hundred)

\* C20, its case: the rate was solved for, the test failed at least once and
\* the loop went on with the new rate before an iteration met the tolerance
\* and returned.
C20_Witness ==
  /\ Settled
  /\ calculateVariable = "rate"
  /\ lastRun.evaluated
  /\ lastRun.converged
  /\ lastRun.iterations >= 3
  /\ lastRun.iterations < maxIterations
  /\ lastRun.rate # Div(One, Num(10))
  /\ FiniteResult

----------------------------------------------------------------------------
(* Claims C21 - C30 *)

\* An iterate the division of the Newton step cannot recover from: it is zero
\* or not finite, or the derivative df is zero at it.
Degenerate(r, n, pv, pmt) ==
  \/ ~IsFinite(r)
  \/ IsZero(r)
  \/ IsZero(DerivativeDf(r, n, pv, pmt))

\* The iterations of a sequence of iterates that started from a degenerate
\* iterate: k stands for the iteration that computed seq[k + 1] from seq[k].
DegenerateIterations(seq, n, pv, pmt) ==
  { k \in 1..(Len(seq) - 1) : Degenerate(seq[k], n, pv, pmt) }

\* C21: in calculateInterestRate, if at some iteration the derivative is zero,
\* or the iterate is zero or not finite, then the next iterate is not finite,
\* no later iterate is finite, the tolerance test is never met, all
\* maxIterations iterations are executed and the value returned is the last
\* iterate * 100, which is not finite; from the parsed inputs of the state an
\* iteration started at 0, NaN, Infinity or -Infinity gives a non-finite
\* iterate as well.
C21_DegenerateIterationPropagates ==
  (Settled /\ calculateVariable = "rate"
     /\ GuardRate(ParsedPeriods, ParsedPresentValue, ParsedPayment, ParsedFutureValue))
  => \E seq \in { IterationsNow }, n \in { ParsedPeriods }, pv \in { ParsedPresentValue },
        pmt \in { ParsedPayment }, fv \in { ParsedFutureValue } :
       /\ \A r \in { NumZero, Neg(NumZero), NaN, Infinity(1), Infinity(-1) } :
            ~IsFinite(NewtonStep(r, n, pv, pmt, fv))
       /\ \A k \in DegenerateIterations(seq, n, pv, pmt) :
            /\ \A j \in (k + 1)..Len(seq) : ~IsFinite(seq[j])
            /\ ~MeetsTolerance(seq)
            /\ Len(seq) = maxIterations + 1
            /\ lastRun.iterations = maxIterations
            /\ ~lastRun.converged
            /\ result = Mul(seq[Len(seq)], Hundred)
            /\ result # Null
            /\ ~IsFinite(result)

\* C21, its case: the rate was solved for, the derivative was zero at a finite
\* iterate that is not zero, and the run went on to the cap and returned a
\* value that is not finite.
C21_Witness ==
  /\ Settled
  /\ calculateVariable = "rate"
  /\ GuardRate(ParsedPeriods, ParsedPresentValue, ParsedPayment, ParsedFutureValue)
  /\ \E k \in 1..(Len(IterationsNow) - 1) :
       /\ IsFinite(IterationsNow[k])
       /\ ~IsZero(IterationsNow[k])
       /\ IsZero(DerivativeDf(IterationsNow[k], ParsedPeriods, ParsedPresentValue,
                              ParsedPayment))
  /\ lastRun.iterations = maxIterations
  /\ result # Null
  /\ ~IsFinite(result)

\* The number of periods by the two logarithm formulas, from a rate that is a
\* fraction.
PeriodsAtFraction(r, pv, pmt, fv) ==
  IF StrictEq(pmt, NumZero)
    THEN Div(MathLog(Div(fv, pv)), MathLog(Add(One, r)))
    ELSE Div(MathLog(Div(Add(Mul(fv, r), pmt), Add(Mul(pv, r), pmt))),
             MathLog(Add(One, r)))

\* C22: the rate is converted between percent and fraction exactly once on
\* every path.  With r the percent typed into the input divided by 100 once:
\* the results for fv, pv and pmt are their formulas at r; the result for
\* periods is the logarithm formula at r, calculatePeriods having divided the
\* percent it was handed by 100 itself; the result for rate is 100 times the
\* last iterate of an iteration that started from the fraction 0.10.
C22_RateConvertedOnce ==
  Settled =>
    \E pct \in { ParseFloat(interestRate) }, n \in { ParsedPeriods },
       pv \in { ParsedPresentValue }, pmt \in { ParsedPayment },
       fv \in { ParsedFutureValue } :
      \E r \in { OrElse(Div(pct, Hundred), NumZero) } :
        /\ (calculateVariable = "fv" /\ GuardFv(n, r))
             => result = SolveFv(n, r, pv, pmt)
        /\ (calculateVariable = "pv" /\ GuardPv(n, r, fv))
             => result = SolvePv(n, r, pmt, fv)
        /\ (calculateVariable = "pmt" /\ GuardPmt(n, r, pv, fv))
             => result = SolvePmt(n, r, pv, fv)
        /\ (calculateVariable = "periods" /\ GuardPeriods(r, pv, pmt, fv))
             => /\ ~StrictEq(pct, NumZero)
                /\ Div(pct, Hundred) = r
                /\ result = PeriodsAtFraction(r, pv, pmt, fv)
        /\ (calculateVariable = "rate" /\ GuardRate(n, pv, pmt, fv))
             => /\ IterationsNow[1] = Div(One, Num(10))
                /\ result = Mul(IterationsNow[Len(IterationsNow)], Hundred)

\* C22, its case: the periods were solved for a percent of 7.5 with a payment,
\* calculatePeriods was handed the percent, and the result is a finite number.
C22_Witness ==
  /\ Settled
  /\ calculateVariable = "periods"
  /\ interestRate = <<"7", ".", "5">>
  /\ ~StrictEq(ParsedPayment, NumZero)
  /\ GuardPeriods(ParsedRate, ParsedPresentValue, ParsedPayment, ParsedFutureValue)
  /\ FiniteResult

\* C23: the payoff simulation terminates for every balance, APR, payment type
\* and fixed payment: once the effect has run, monthsToPayoff is at most
\* maxMonths, the schedule has exactly monthsToPayoff rows, and row k carries
\* the month k (the counter went up by one in each iteration) and the year
\* ceil(k / 12); when the guard fails no iteration ran.
C23_PayoffTerminates ==
  CreditCardSettled
  => \E rows \in { creditCard.paymentSchedule } :
       /\ creditCard.results.monthsToPayoff \in 0 .. maxMonths
       /\ Len(rows) = creditCard.results.monthsToPayoff
       /\ \A k \in 1 .. Len(rows) :
            /\ rows[k].month = k
            /\ rows[k].year = (k + 11) \div 12
       /\ ~GuardPayoff(CurrentBalance, AnnualRate) => Len(rows) = 0

\* C23, its case: a fixed payment of zero (the input left empty) on a balance
\* of 1000 at 24 %; the loop was ended by the limit and the schedule has
\* maxMonths rows.
C23_Witness ==
  /\ CreditCardSettled
  /\ kv[CreditBalanceKey] = <<"1", "0", "0", "0">>
  /\ kv[CreditAprKey] = <<"2", "4">>
  /\ kv[CreditPaymentTypeKey] = "fixed"
  /\ kv[CreditFixedPaymentKey] = <<>>
  /\ Len(creditCard.paymentSchedule) = maxMonths
  /\ creditCard.paymentSchedule[maxMonths].month = maxMonths

\* The strings the model types into the input of a variable.
StringsOf(variable) ==
  CASE variable = "periods" -> PeriodStrings
    [] variable = "rate" -> RateStrings
    [] variable = "pv" -> PresentValueStrings
    [] variable = "pmt" -> PaymentStrings
    [] variable = "fv" -> FutureValueStrings

\* What the effect computes for the selection and the inputs of the state
\* when the field of the selected variable holds str instead.
ResultWithUnknown(str) ==
  Effect(calculateVariable,
         IF calculateVariable = "periods" THEN str ELSE periods,
         IF calculateVariable = "rate" THEN str ELSE interestRate,
         IF calculateVariable = "pv" THEN str ELSE presentValue,
         IF calculateVariable = "pmt" THEN str ELSE payment,
         IF calculateVariable = "fv" THEN str ELSE futureValue).calculatedResult

\* C25: for each selection the result does not depend on the string stored in
\* the field of the selected variable: a state that differs from this one
\* only in that string has the same result.
C25_UnknownFieldIsNotRead ==
  Settled => \A str \in StringsOf(calculateVariable) : ResultWithUnknown(str) = result

\* C25, its case: fv is solved for while a future value typed before the
\* selector was switched is still stored, and the result is a number.
C25_Witness ==
  /\ Settled
  /\ calculateVariable = "fv"
  /\ futureValue = <<"2", "0", "0", "0">>
  /\ FiniteResult
  /\ result # ParsedFutureValue
  /\ ResultWithUnknown(<<>>) = result

\* C26, in every step: a step that changes the selector or the result leaves
\* the five stored strings as they were.
C26_SelectorStep ==
  (calculateVariable' # calculateVariable \/ result' # result) => inputs' = inputs

\* C26, in every state: the field of the selected variable is shown empty and
\* disabled whatever it stores, every other field shows its stored string
\* and is enabled, and the result is computed from the stored strings.
C26_SelectorState ==
  /\ InputDisabled(calculateVariable)
  /\ ShownValue(calculateVariable) = <<>>
  /\ \A v \in Variables \ {calculateVariable} :
       ~InputDisabled(v) /\ ShownValue(v) = StoredValue(v)
  /\ Settled => result = EffectNow.calculatedResult

\* C26: changing the selector leaves the five stored strings unchanged; the
\* field that becomes the unknown is only shown empty and disabled, its
\* stored string is kept and is shown and used again once another variable is
\* selected; a result is never written into a field.
C26_SelectorKeepsInputs ==
  /\ []C26_SelectorState
  /\ [][C26_SelectorStep]_vars

\* C26, its case: a future value of 2000 was typed, fv was then selected (the
\* string stayed) and pv selected after it; the field shows 2000 again and
\* the present value is computed from it.
C26_Witness ==
  /\ Settled
  /\ calculateVariable = "pv"
  /\ futureValue = <<"2", "0", "0", "0">>
  /\ ShownValue("fv") = <<"2", "0", "0", "0">>
  /\ presentValue # <<>>
  /\ ShownValue("pv") = <<>>
  /\ FiniteResult
  /\ result = SolvePv(ParsedPeriods, ParsedRate, ParsedPayment, ParsedFutureValue)

\* x <= y
LessEq(x, y) == GreaterEq(y, x)

\* The balance before the payment of row k of the schedule: the balance the
\* simulation started from, or the balance of the row before.
BalanceBefore(k) ==
  IF k = 1 THEN CurrentBalance ELSE creditCard.paymentSchedule[k - 1].balance

\* C24: in every row of the schedule, with the minimum payment and with a
\* fixed payment, the payment is at most the balance before the payment plus
\* the interest of the month and the balance after it is not negative; with
\* the minimum payment the payment is max(interest + 1% of the balance, 25)
\* capped by that amount, the principal part is above zero and the balance is
\* below the balance before the payment.
C24_PaymentWithinWhatIsOwed ==
  CreditCardSettled
  => \A k \in 1 .. Len(creditCard.paymentSchedule) :
       \E row \in { creditCard.paymentSchedule[k] }, before \in { BalanceBefore(k) } :
         /\ LessEq(row.payment, Add(before, row.interest))
         /\ GreaterEq(row.balance, NumZero)
         /\ kv[CreditPaymentTypeKey] = "minimum"
              => /\ row.payment =
                      MathMin(MathMax(Add(row.interest, Mul(before, Cent)),
                                      MinimumPaymentFloor),
                              Add(before, row.interest))
                 /\ Greater(row.principal, NumZero)
                 /\ Less(row.balance, before)

\* C24, where the code departs from it: the minimum payment on a balance of
\* 1000 at an APR of 2 * 10^17 %.  The interest of the month is so large that
\* adding 1% of the balance to it gives the interest again; the payment is
\* the interest, the principal part is zero and the balance stays at 1000 in
\* every one of the maxMonths rows.
C24_Witness ==
  /\ CreditCardSettled
  /\ kv[CreditBalanceKey] = <<"1", "0", "0", "0">>
  /\ Len(kv[CreditAprKey]) = 18
  /\ kv[CreditPaymentTypeKey] = "minimum"
  /\ Len(creditCard.paymentSchedule) = maxMonths
  /\ \A k \in 1 .. maxMonths :
       /\ creditCard.paymentSchedule[k].payment = creditCard.paymentSchedule[k].interest
       /\ IsZero(creditCard.paymentSchedule[k].principal)
       /\ creditCard.paymentSchedule[k].balance = CurrentBalance

\* acc + column[lo] + ... + column[hi], added from left to right as reduce
\* and += do.
RECURSIVE SumFrom(_, _, _, _)
SumFrom(acc, column, lo, hi) ==
  IF lo > hi THEN acc
  ELSE IF lo = hi THEN Add(acc, column[lo])
  ELSE CHOOSE out \in
         { SumFrom(mid, column, (lo + hi) \div 2 + 1, hi) :
           mid \in { SumFrom(acc, column, lo, (lo + hi) \div 2) } } : TRUE

\* The sum of a column of numbers.
SumOf(column) == SumFrom(NumZero, column, 1, Len(column))

\* The interest column and the payment column of the schedule.
InterestColumn ==
  [k \in 1 .. Len(creditCard.paymentSchedule) |-> creditCard.paymentSchedule[k].interest]

PaymentColumn ==
  [k \in 1 .. Len(creditCard.paymentSchedule) |-> creditCard.paymentSchedule[k].payment]

\* What rounding may put between two sums of the same amounts: one part in a
\* hundred of the larger one.
SumTolerance(x, y) == Div(MathMax(MathAbs(x), MathAbs(y)), Hundred)

\* C28: the totals agree with the schedule for every input on which a
\* schedule is produced, runs ended by the limit of maxMonths included:
\* totalInterest is the sum of the interest column, and totalPaid, the
\* original balance + total interest, is the sum of the payment column.
C28_TotalsAgreeWithSchedule ==
  (CreditCardSettled /\ Len(creditCard.paymentSchedule) > 0)
  => \E paid \in { SumOf(PaymentColumn) } :
       /\ creditCard.results.totalInterest = SumOf(InterestColumn)
       /\ creditCard.results.totalPaid = Add(CurrentBalance, creditCard.results.totalInterest)
       /\ Within(creditCard.results.totalPaid, paid,
                 SumTolerance(creditCard.results.totalPaid, paid))

\* C28, where the code departs from it: a balance of 1000 at 24 % with a fixed
\* payment of 10.  The run is ended by the limit; the interest column sums to
\* totalInterest, but totalPaid exceeds the sum of the payments, maxMonths
\* payments of 10, by more than the balance the run started from.
C28_Witness ==
  /\ CreditCardSettled
  /\ kv[CreditBalanceKey] = <<"1", "0", "0", "0">>
  /\ kv[CreditAprKey] = <<"2", "4">>
  /\ kv[CreditPaymentTypeKey] = "fixed"
  /\ kv[CreditFixedPaymentKey] = <<"1", "0">>
  /\ Len(creditCard.paymentSchedule) = maxMonths
  /\ creditCard.results.totalInterest = SumOf(InterestColumn)
  /\ \A k \in 1 .. maxMonths : PaymentColumn[k] = Num(10)
  /\ Greater(Sub(creditCard.results.totalPaid, SumOf(PaymentColumn)), CurrentBalance)

----------------------------------------------------------------------------
(* The component CompoundInterestCalculator *)

\* Strings typed into the inputs of the compound interest calculator, and the
\* items of its two Selects the model chooses among.
CompoundPrincipalStrings == { <<>>, <<"1", "0", "0", "0">> }

CompoundRateStrings == { <<>>, <<"0">>, <<"1", "2">> }

CompoundYearStrings == { <<>>, <<"1">>, <<"2">> }

CompoundingFreqItems == { <<"1", "2">>, <<"1">> }

DepositStrings == { <<>>, <<"1", "0", "0">> }

DepositFreqItems == { <<"0">>, <<"1", "2">>, <<"1">> }

\* if (P > 0 && r >= 0 && t > 0)
GuardCompound(P, r, t) ==
  /\ Greater(P, NumZero)
  /\ GreaterEq(r, NumZero)
  /\ Greater(t, NumZero)

\* deposit > 0 && depositFreqNum > 0
DepositsMade(deposit, depositFreqNum) ==
  Greater(deposit, NumZero) /\ Greater(depositFreqNum, NumZero)

\* The divisor of the annuity term: r / 12 for monthly deposits, r for annual
\* ones.
AnnuityDivisor(r, depositFreqNum) ==
  IF StrictEq(depositFreqNum, Num(12)) THEN Div(r, Num(12)) ELSE r

\* futureValueAnnuity for deposits made 12 times or once a year:
\* deposit * ((Math.pow(1 + rate, periods) - 1) / rate).
FutureValueAnnuity(r, deposit, depositFreqNum, year) ==
  CHOOSE out \in
    { Mul(deposit, Div(Sub(MathPow(Add(One, rate), Mul(per, year)), One), rate)) :
      rate \in { AnnuityDivisor(r, depositFreqNum) },
      per \in { IF StrictEq(depositFreqNum, Num(12)) THEN Num(12) ELSE One } } : TRUE

\* The amount after `year` years: P * Math.pow(1 + r / n, n * year), plus the
\* annuity term when deposits are added.
AmountAfter(P, r, n, deposit, depositFreqNum, year, withDeposits) ==
  CHOOSE out \in
    { IF withDeposits /\ (StrictEq(depositFreqNum, Num(12)) \/ StrictEq(depositFreqNum, One))
        THEN Add(grown, FutureValueAnnuity(r, deposit, depositFreqNum, year))
        ELSE grown :
      grown \in { Mul(P, MathPow(Add(One, Div(r, n)), Mul(n, year))) } } : TRUE

\* totalDeposits / yearDeposits: P, plus deposit * (depositFreqNum * year)
\* when deposits are added.
DepositsAfter(P, deposit, depositFreqNum, year, withDeposits) ==
  IF withDeposits THEN Add(P, Mul(deposit, Mul(depositFreqNum, year))) ELSE P

\* One point of the chart: the body of the for loop for a year.
ChartPoint(P, r, n, deposit, depositFreqNum, year) ==
  CHOOSE point \in
    { [year |-> year,
       principal |-> yearDeposits,
       interest |-> Sub(AmountAfter(P, r, n, deposit, depositFreqNum, Num(year), with),
                        yearDeposits)] :
      yearDeposits \in { DepositsAfter(P, deposit, depositFreqNum, Num(year),
                                       DepositsMade(deposit, depositFreqNum) /\ year > 0) },
      with \in { DepositsMade(deposit, depositFreqNum) /\ year > 0 } } : TRUE

\* The branch of the effect in which the guard holds.
CompoundOutcome(P, r, t, n, deposit, depositFreqNum) ==
  CHOOSE out \in
    { [results |-> [finalAmount |-> finalAmount,
                    totalInterest |-> Sub(finalAmount, totalDeposits),
                    totalDeposits |-> totalDeposits],
       chartData |-> [k \in 1 .. (ToInt(t) + 1) |->
                        ChartPoint(P, r, n, deposit, depositFreqNum, k - 1)]] :
      finalAmount \in { AmountAfter(P, r, n, deposit, depositFreqNum, t,
                                    DepositsMade(deposit, depositFreqNum)) },
      totalDeposits \in { DepositsAfter(P, deposit, depositFreqNum, t,
                                        DepositsMade(deposit, depositFreqNum)) } } : TRUE

\* The else branch of the effect: the results are reset.
CompoundReset ==
  [results |-> [finalAmount |-> NumZero, totalInterest |-> NumZero,
                totalDeposits |-> NumZero],
   chartData |-> <<>>]

\* The body of the effect of CompoundInterestCalculator on its six strings.
CompoundEffect(c) ==
  CHOOSE out \in
    { IF GuardCompound(P, r, t)
        THEN CompoundOutcome(P, r, t, OrElse(ParseInt(c.compoundingFreq), Num(12)),
                             ParseOrZero(c.additionalDeposit),
                             OrElse(ParseInt(c.depositFreq), NumZero))
        ELSE CompoundReset :
      P \in { ParseOrZero(c.principal) },
      r \in { ParseRate(c.interestRate) },
      t \in { OrElse(ParseInt(c.years), NumZero) } } : TRUE

\* useEffect(() => { ... }, [principal, interestRate, years, compoundingFreq,
\* additionalDeposit, depositFreq])
RunCompoundEffect ==
  /\ compound.effectPending
  /\ \E out \in { CompoundEffect(compound) } :
       compound' = [compound EXCEPT !.results = out.results,
                                    !.chartData = out.chartData,
                                    !.effectPending = FALSE]
  /\ UNCHANGED <<inputs, calculateVariable, result, effectPending, lastRun, kv,
                 creditCard, autoLoan, mortgage>>

\* onChange of the input "principal".
SetCompoundPrincipal ==
  /\ ~compound.effectPending
  /\ \E v \in CompoundPrincipalStrings \ {compound.principal} :
       compound' = [compound EXCEPT !.principal = v, !.effectPending = TRUE]
  /\ UNCHANGED <<inputs, calculateVariable, result, effectPending, lastRun, kv,
                 creditCard, autoLoan, mortgage>>

\* onChange of the input "interest-rate" of the compound interest calculator.
SetCompoundRate ==
  /\ ~compound.effectPending
  /\ \E v \in CompoundRateStrings \ {compound.interestRate} :
       compound' = [compound EXCEPT !.interestRate = v, !.effectPending = TRUE]
  /\ UNCHANGED <<inputs, calculateVariable, result, effectPending, lastRun, kv,
                 creditCard, autoLoan, mortgage>>

\* onChange of the input "years".
SetCompoundYears ==
  /\ ~compound.effectPending
  /\ \E v \in CompoundYearStrings \ {compound.years} :
       compound' = [compound EXCEPT !.years = v, !.effectPending = TRUE]
  /\ UNCHANGED <<inputs, calculateVariable, result, effectPending, lastRun, kv,
                 creditCard, autoLoan, mortgage>>

\* onValueChange of the Select "compounding-freq".
SetCompoundingFreq ==
  /\ ~compound.effectPending
  /\ \E v \in CompoundingFreqItems \ {compound.compoundingFreq} :
       compound' = [compound EXCEPT !.compoundingFreq = v, !.effectPending = TRUE]
  /\ UNCHANGED <<inputs, calculateVariable, result, effectPending, lastRun, kv,
                 creditCard, autoLoan, mortgage>>

\* onChange of the input "additional-deposit".
SetAdditionalDeposit ==
  /\ ~compound.effectPending
  /\ \E v \in DepositStrings \ {compound.additionalDeposit} :
       compound' = [compound EXCEPT !.additionalDeposit = v, !.effectPending = TRUE]
  /\ UNCHANGED <<inputs, calculateVariable, result, effectPending, lastRun, kv,
                 creditCard, autoLoan, mortgage>>

\* onValueChange of the Select "deposit-freq".
SetDepositFreq ==
  /\ ~compound.effectPending
  /\ \E v \in DepositFreqItems \ {compound.depositFreq} :
       compound' = [compound EXCEPT !.depositFreq = v, !.effectPending = TRUE]
  /\ UNCHANGED <<inputs, calculateVariable, result, effectPending, lastRun, kv,
                 creditCard, autoLoan, mortgage>>

\* The events and the effect of CompoundInterestCalculator.
NextCompound ==
  \/ RunCompoundEffect
  \/ SetCompoundPrincipal
  \/ SetCompoundRate
  \/ SetCompoundYears
  \/ SetCompoundingFreq
  \/ SetAdditionalDeposit
  \/ SetDepositFreq

\* The compound interest calculator alone, from an empty store.
SpecCompound == Init /\ [][NextCompound]_vars

\* The effect of the compound interest calculator has run on its strings.
CompoundSettled == ~compound.effectPending

\* const P, r, t, deposit, depositFreqNum of the effect, on the strings of
\* the state.
CompoundP == ParseOrZero(compound.principal)

CompoundR == ParseRate(compound.interestRate)

CompoundT == OrElse(ParseInt(compound.years), NumZero)

CompoundDeposit == ParseOrZero(compound.additionalDeposit)

CompoundDepositFreq == OrElse(ParseInt(compound.depositFreq), NumZero)

\* Whether the effect evaluates an annuity term on the strings of the state.
AnnuityEvaluated ==
  /\ DepositsMade(CompoundDeposit, CompoundDepositFreq)
  /\ StrictEq(CompoundDepositFreq, Num(12)) \/ StrictEq(CompoundDepositFreq, One)

\* C29: for every input the guard admits (principal > 0, rate >= 0,
\* years > 0), rate 0 with monthly or annual deposits included, no annuity
\* term is evaluated with a divisor of zero, the final amount and every point
\* of the chart are finite, and at rate 0 the final amount is the total of
\* the deposits and the total interest is 0.
C29_CompoundFiniteAtEveryRate ==
  (CompoundSettled /\ GuardCompound(CompoundP, CompoundR, CompoundT))
  => /\ AnnuityEvaluated => ~IsZero(AnnuityDivisor(CompoundR, CompoundDepositFreq))
     /\ IsFinite(compound.results.finalAmount)
     /\ \A k \in 1 .. Len(compound.chartData) :
          /\ IsFinite(compound.chartData[k].principal)
          /\ IsFinite(compound.chartData[k].interest)
     /\ IsZero(CompoundR)
          => /\ compound.results.finalAmount = compound.results.totalDeposits
             /\ IsZero(compound.results.totalInterest)

\* C29, where the code departs from it: 1000 at 0 % for one year with a
\* monthly deposit of 100.  The annuity term is 100 * ((1 - 1) / 0); the
\* final amount and the interest of the chart point of year 1 are NaN, while
\* the total of the deposits is 2200.
C29_Witness ==
  /\ CompoundSettled
  /\ compound.principal = <<"1", "0", "0", "0">>
  /\ compound.interestRate = <<"0">>
  /\ compound.years = <<"1">>
  /\ compound.additionalDeposit = <<"1", "0", "0">>
  /\ compound.depositFreq = <<"1", "2">>
  /\ IsZero(AnnuityDivisor(CompoundR, CompoundDepositFreq))
  /\ IsNaN(compound.results.finalAmount)
  /\ IsNaN(compound.results.totalInterest)
  /\ compound.results.totalDeposits = Num(2200)
  /\ Len(compound.chartData) = 2
  /\ IsNaN(compound.chartData[2].interest)

----------------------------------------------------------------------------
(* The component MortgageCalculator *)

\* Strings typed into the inputs of the mortgage calculator.
HomePriceStrings == { <<>>, <<"7", "2", "0", "0">> }

DownPaymentStrings == { <<"1", "0">>, <<>>, <<"5", "0">>, <<"1", "0", "0">> }

MortgageRateStrings == { <<>>, <<"0">>, <<"1", "2">> }

MortgageTermStrings == { <<>>, <<"1">>, <<"2">> }

\* const principal = Math.max(0, housePriceValue - downPaymentAmount), with
\* downPaymentAmount = housePriceValue * (downPaymentPercentValue / 100)
MortgagePrincipal(housePriceValue, downPaymentPercentValue) ==
  MathMax(NumZero,
          Sub(housePriceValue, Mul(housePriceValue, Div(downPaymentPercentValue, Hundred))))

\* A test that holds in the last month of the loan only.
IsLastMonthOfLoan(month, numberOfPayments) == month = numberOfPayments

\* const isLastMonthOfYear = month % 12 === 0 || month === numberOfPayments
IsLastMonthOfYear(month, numberOfPayments) ==
  month % 12 = 0 \/ month = numberOfPayments

\* The row pushed to yearlyData in a last month of a year, from the rows of
\* monthlyData pushed so far.
YearRow(principal, monthlyData, month, numberOfPayments) ==
  CHOOSE row \in
    { [year |-> currentYear,
       beginningBalance |-> IF yearStart = 1 THEN principal
                            ELSE monthlyData[yearStart - 1].balance,
       totalPayments |->
         SumFrom(NumZero, [k \in 1 .. Len(monthlyData) |-> monthlyData[k].payment],
                 yearStart, yearEnd),
       principalPaid |->
         SumFrom(NumZero, [k \in 1 .. Len(monthlyData) |-> monthlyData[k].principal],
                 yearStart, yearEnd),
       interestPaid |->
         SumFrom(NumZero, [k \in 1 .. Len(monthlyData) |-> monthlyData[k].interest],
                 yearStart, yearEnd),
       endingBalance |-> monthlyData[yearEnd].balance] :
      currentYear \in { (month + 11) \div 12 },
      yearStart \in { (((month + 11) \div 12) - 1) * 12 + 1 },
      yearEnd \in { IF ((month + 11) \div 12) * 12 < numberOfPayments
                      THEN ((month + 11) \div 12) * 12 ELSE numberOfPayments } } : TRUE

\* yearlyData after the for loop: one row for each month that passes the
\* test, in the order of the months.
YearlyData(principal, monthlyData, numberOfPayments) ==
  CHOOSE rows \in
    { [k \in 1 .. Len(months) |->
         YearRow(principal, monthlyData, months[k], numberOfPayments)] :
      months \in { SelectSeq([m \in 1 .. numberOfPayments |-> m],
                             LAMBDA m : IsLastMonthOfYear(m, numberOfPayments)) } } : TRUE

\* What the effect hands to setResults, setYearlySchedule and
\* setMonthlySchedule when the guard holds; st holds the variables of the
\* for loop after it ended.
MortgageOutcome(principal, monthlyPayment, st, numberOfPayments) ==
  [results |-> [loanAmount |-> principal,
                monthlyPayment |-> monthlyPayment,
                totalInterest |-> st.totalInterestPaid,
                totalPaid |-> Add(principal, st.totalInterestPaid)],
   yearlySchedule |-> YearlyData(principal, st.schedule, numberOfPayments),
   monthlySchedule |-> st.schedule]

\* The else branch of the effect: the results are reset.
MortgageReset ==
  [results |-> [loanAmount |-> NumZero, monthlyPayment |-> NumZero,
                totalInterest |-> NumZero, totalPaid |-> NumZero],
   yearlySchedule |-> <<>>,
   monthlySchedule |-> <<>>]

\* The branch of the effect in which the guard holds.  The payment formula
\* and the body of the monthly loop are those of AutoLoanCalculator.
MortgageSchedule(principal, annualRate, monthlyRate, numberOfPayments) ==
  CHOOSE out \in
    { MortgageOutcome(principal, monthlyPayment,
                      SchedulePasses(ScheduleStart(principal), ToInt(numberOfPayments),
                                     monthlyRate, monthlyPayment),
                      ToInt(numberOfPayments)) :
      monthlyPayment \in { MonthlyPayment(principal, annualRate, monthlyRate,
                                          numberOfPayments) } } : TRUE

\* The body of the effect of MortgageCalculator on its four strings; its
\* guard is principal > 0 && annualRate >= 0 && years > 0.
MortgageEffect(m) ==
  CHOOSE out \in
    { IF GuardLoan(principal, annualRate, years)
        THEN MortgageSchedule(principal, annualRate, Div(annualRate, Num(12)),
                              Mul(years, Num(12)))
        ELSE MortgageReset :
      principal \in { MortgagePrincipal(ParseOrZero(m.homePrice),
                                        ParseOrZero(m.downPaymentPercent)) },
      annualRate \in { ParseRate(m.interestRate) },
      years \in { OrElse(ParseInt(m.loanTerm), NumZero) } } : TRUE

\* useEffect(() => { ... }, [homePrice, downPaymentPercent, interestRate,
\* loanTerm])
RunMortgageEffect ==
  /\ mortgage.effectPending
  /\ \E out \in { MortgageEffect(mortgage) } :
       mortgage' = [mortgage EXCEPT !.results = out.results,
                                    !.yearlySchedule = out.yearlySchedule,
                                    !.monthlySchedule = out.monthlySchedule,
                                    !.effectPending = FALSE]
  /\ UNCHANGED <<inputs, calculateVariable, result, effectPending, lastRun, kv,
                 creditCard, autoLoan, compound>>

\* onChange of the input "home-price".
SetHomePrice ==
  /\ ~mortgage.effectPending
  /\ \E v \in HomePriceStrings \ {mortgage.homePrice} :
       mortgage' = [mortgage EXCEPT !.homePrice = v, !.effectPending = TRUE]
  /\ UNCHANGED <<inputs, calculateVariable, result, effectPending, lastRun, kv,
                 creditCard, autoLoan, compound>>

\* onChange of the input "down-payment".
SetDownPaymentPercent ==
  /\ ~mortgage.effectPending
  /\ \E v \in DownPaymentStrings \ {mortgage.downPaymentPercent} :
       mortgage' = [mortgage EXCEPT !.downPaymentPercent = v, !.effectPending = TRUE]
  /\ UNCHANGED <<inputs, calculateVariable, result, effectPending, lastRun, kv,
                 creditCard, autoLoan, compound>>

\* onChange of the input "interest-rate" of the mortgage calculator.
SetMortgageRate ==
  /\ ~mortgage.effectPending
  /\ \E v \in MortgageRateStrings \ {mortgage.interestRate} :
       mortgage' = [mortgage EXCEPT !.interestRate = v, !.effectPending = TRUE]
  /\ UNCHANGED <<inputs, calculateVariable, result, effectPending, lastRun, kv,
                 creditCard, autoLoan, compound>>

\* onChange of the input "loan-term" of the mortgage calculator.
SetMortgageTerm ==
  /\ ~mortgage.effectPending
  /\ \E v \in MortgageTermStrings \ {mortgage.loanTerm} :
       mortgage' = [mortgage EXCEPT !.loanTerm = v, !.effectPending = TRUE]
  /\ UNCHANGED <<inputs, calculateVariable, result, effectPending, lastRun, kv,
                 creditCard, autoLoan, compound>>

\* The events and the effect of MortgageCalculator.
NextMortgage ==
  \/ RunMortgageEffect
  \/ SetHomePrice
  \/ SetDownPaymentPercent
  \/ SetMortgageRate
  \/ SetMortgageTerm

\* The mortgage calculator alone, from an empty store.
SpecMortgage == Init /\ [][NextMortgage]_vars

\* The effect of the mortgage calculator has run on its strings.
MortgageSettled == ~mortgage.effectPending

\* const principal, annualRate, years of the effect, on the strings of the
\* state.
LoanPrincipal ==
  MortgagePrincipal(ParseOrZero(mortgage.homePrice),
                    ParseOrZero(mortgage.downPaymentPercent))

MortgageAnnualRate == ParseRate(mortgage.interestRate)

MortgageYears == OrElse(ParseInt(mortgage.loanTerm), NumZero)

\* A column of the monthly schedule.
MonthlyColumn(field) ==
  [k \in 1 .. Len(mortgage.monthlySchedule) |->
     CASE field = "payment" -> mortgage.monthlySchedule[k].payment
       [] field = "principal" -> mortgage.monthlySchedule[k].principal
       [] field = "interest" -> mortgage.monthlySchedule[k].interest]

\* The yearly interest column.
YearlyInterest ==
  [y \in 1 .. Len(mortgage.yearlySchedule) |-> mortgage.yearlySchedule[y].interestPaid]

\* C30: the yearly schedule agrees with the monthly one: it has one row for
\* each year of the loan, numbered 1 .. years in order (the monthly one has
\* 12 rows a year); the beginning balance of the first row is the loan
\* principal, the home price minus the down payment and not negative; the
\* beginning balance of each later row is the ending balance of the row
\* before; the totals of a row are the sums over its 12 monthly rows and its
\* ending balance is the balance of the last of them; the yearly interest
\* sums to the total interest reported.
C30_YearlyAgreesWithMonthly ==
  (MortgageSettled /\ GuardLoan(LoanPrincipal, MortgageAnnualRate, MortgageYears))
  => \E yearly \in { mortgage.yearlySchedule }, years \in { ToInt(MortgageYears) } :
       /\ Len(yearly) = years
       /\ Len(mortgage.monthlySchedule) = 12 * years
       /\ mortgage.results.loanAmount = LoanPrincipal
       /\ GreaterEq(LoanPrincipal, NumZero)
       /\ \A y \in 1 .. Len(yearly) :
            /\ yearly[y].year = y
            /\ yearly[y].beginningBalance =
                 IF y = 1 THEN LoanPrincipal ELSE yearly[y - 1].endingBalance
            /\ yearly[y].totalPayments =
                 SumFrom(NumZero, MonthlyColumn("payment"), 12 * y - 11, 12 * y)
            /\ yearly[y].principalPaid =
                 SumFrom(NumZero, MonthlyColumn("principal"), 12 * y - 11, 12 * y)
            /\ yearly[y].interestPaid =
                 SumFrom(NumZero, MonthlyColumn("interest"), 12 * y - 11, 12 * y)
            /\ yearly[y].endingBalance = mortgage.monthlySchedule[12 * y].balance
       /\ \E sum \in { SumOf(YearlyInterest) } :
            \/ sum = mortgage.results.totalInterest
            \/ Within(sum, mortgage.results.totalInterest,
                      SumTolerance(sum, mortgage.results.totalInterest))

\* C30, its case: a home of 7200 with 10 % down at 12 % over 2 years; the
\* yearly schedule has two rows and the second begins with the balance the
\* first ended with, which is below the principal and above zero.
C30_Witness ==
  /\ MortgageSettled
  /\ mortgage.homePrice = <<"7", "2", "0", "0">>
  /\ mortgage.downPaymentPercent = <<"1", "0">>
  /\ mortgage.interestRate = <<"1", "2">>
  /\ mortgage.loanTerm = <<"2">>
  /\ Len(mortgage.yearlySchedule) = 2
  /\ Len(mortgage.monthlySchedule) = 24
  /\ mortgage.yearlySchedule[2].beginningBalance = mortgage.monthlySchedule[12].balance
  /\ Less(mortgage.yearlySchedule[2].beginningBalance, LoanPrincipal)
  /\ Greater(mortgage.yearlySchedule[2].beginningBalance, NumZero)
  /\ Greater(mortgage.yearlySchedule[2].interestPaid, NumZero)

----------------------------------------------------------------------------
(* The four calculators that render their results under hasValidInputs *)

\* hasValidInputs of AutoLoanCalculator.
AutoLoanHasValidInputs ==
  /\ Greater(ParseFloat(kv[AutoLoanAmountKey]), NumZero)
  /\ GreaterEq(ParseFloat(kv[AutoInterestRateKey]), NumZero)
  /\ Greater(ParseInt(kv[AutoLoanTermKey]), NumZero)

\* hasValidInputs of CreditCardCalculator.
CreditCardHasValidInputs ==
  /\ Greater(ParseFloat(kv[CreditBalanceKey]), NumZero)
  /\ Greater(ParseFloat(kv[CreditAprKey]), NumZero)
  /\ \/ kv[CreditPaymentTypeKey] = "minimum"
     \/ Greater(ParseFloat(kv[CreditFixedPaymentKey]), NumZero)

\* hasValidInputs of MortgageCalculator.
MortgageHasValidInputs ==
  /\ Greater(ParseFloat(mortgage.homePrice), NumZero)
  /\ GreaterEq(ParseFloat(mortgage.downPaymentPercent), NumZero)
  /\ Less(ParseFloat(mortgage.downPaymentPercent), Hundred)
  /\ GreaterEq(ParseFloat(mortgage.interestRate), NumZero)
  /\ Greater(ParseInt(mortgage.loanTerm), NumZero)

\* hasValidInputs of CompoundInterestCalculator.
CompoundHasValidInputs ==
  /\ Greater(ParseFloat(compound.principal), NumZero)
  /\ GreaterEq(ParseFloat(compound.interestRate), NumZero)
  /\ Greater(ParseInt(compound.years), NumZero)

\* React runs the effects of a render before the browser delivers the next
\* event.
CalculatorsIdle ==
  /\ ~creditCard.effectPending
  /\ ~autoLoan.effectPending
  /\ ~compound.effectPending
  /\ ~mortgage.effectPending

\* The inputs of a calculator are as they were when it mounted.
Untouched(calculator) ==
  CASE calculator = "creditcard" -> \A key \in CreditKeys : kv[key] = DefaultValue(key)
    [] calculator = "autoloan" -> \A key \in AutoKeys : kv[key] = DefaultValue(key)
    [] calculator = "compound" ->
         [compound EXCEPT !.results = CompoundMounted.results,
                          !.chartData = <<>>, !.effectPending = TRUE] = CompoundMounted
    [] calculator = "mortgage" ->
         [mortgage EXCEPT !.results = MortgageMounted.results,
                          !.yearlySchedule = <<>>, !.monthlySchedule = <<>>,
                          !.effectPending = TRUE] = MortgageMounted

\* The tabs of App show one calculator at a time: an event of a calculator
\* finds no effect pending and the inputs of the other three untouched.
WorkingIn(calculator) ==
  /\ CalculatorsIdle
  /\ \A other \in {"creditcard", "autoloan", "compound", "mortgage"} \ {calculator} :
       Untouched(other)

\* The events and the effects of the four calculators.
NextCalculators ==
  \/ RunCreditCardEffect
  \/ RunAutoLoanEffect
  \/ RunCompoundEffect
  \/ RunMortgageEffect
  \/ WorkingIn("creditcard") /\ SetBalance
  \/ WorkingIn("creditcard") /\ SetApr
  \/ WorkingIn("creditcard") /\ SetPaymentType
  \/ WorkingIn("creditcard") /\ SetFixedPayment
  \/ WorkingIn("autoloan") /\ SetLoanAmount
  \/ WorkingIn("autoloan") /\ SetLoanRate
  \/ WorkingIn("autoloan") /\ SetLoanTerm
  \/ WorkingIn("compound") /\ SetCompoundPrincipal
  \/ WorkingIn("compound") /\ SetCompoundRate
  \/ WorkingIn("compound") /\ SetCompoundYears
  \/ WorkingIn("compound") /\ SetCompoundingFreq
  \/ WorkingIn("compound") /\ SetAdditionalDeposit
  \/ WorkingIn("compound") /\ SetDepositFreq
  \/ WorkingIn("mortgage") /\ SetHomePrice
  \/ WorkingIn("mortgage") /\ SetDownPaymentPercent
  \/ WorkingIn("mortgage") /\ SetMortgageRate
  \/ WorkingIn("mortgage") /\ SetMortgageTerm

SpecCalculators == Init /\ [][NextCalculators]_vars

\* C27, the auto loan calculator: where the results are rendered the effect
\* took its computing branch, the summary is not the reset one and the
\* schedule is not empty.
C27_AutoLoan ==
  (AutoLoanSettled /\ AutoLoanHasValidInputs)
  => /\ GuardLoan(Principal, LoanAnnualRate, Years)
     /\ autoLoan.results # LoanReset.results
     /\ autoLoan.amortizationSchedule # <<>>

\* C27, the credit card calculator.
C27_CreditCard ==
  (CreditCardSettled /\ CreditCardHasValidInputs)
  => /\ GuardPayoff(CurrentBalance, AnnualRate)
     /\ creditCard.results # PayoffReset.results
     /\ creditCard.paymentSchedule # <<>>

\* C27, the mortgage calculator.
C27_Mortgage ==
  (MortgageSettled /\ MortgageHasValidInputs)
  => /\ GuardLoan(LoanPrincipal, MortgageAnnualRate, MortgageYears)
     /\ mortgage.results # MortgageReset.results
     /\ mortgage.yearlySchedule # <<>>
     /\ mortgage.monthlySchedule # <<>>

\* C27, the compound interest calculator.
C27_Compound ==
  (CompoundSettled /\ CompoundHasValidInputs)
  => /\ GuardCompound(CompoundP, CompoundR, CompoundT)
     /\ compound.results # CompoundReset.results
     /\ compound.chartData # <<>>

\* C27: for the auto loan, credit card, mortgage and compound interest
\* calculators the display guard implies the computation guard: in every
\* state in which hasValidInputs holds, the condition of the effect on the
\* parsed inputs holds too, the summary rendered is not the zeroed reset
\* value and the schedule rendered is not the empty reset list.
C27_DisplayGuardImpliesComputation ==
  /\ C27_AutoLoan
  /\ C27_CreditCard
  /\ C27_Mortgage
  /\ C27_Compound

\* C27, where the code departs from it: a balance of 0.01 at 24 % with the
\* minimum payment.  hasValidInputs holds and so does the guard of the
\* effect, but the loop test remainingBalance > 0.01 fails at once: the
\* schedule rendered is the empty list and the summary shows 0 months, no
\* interest and no monthly payment.
C27_Witness ==
  /\ CreditCardSettled
  /\ kv[CreditBalanceKey] = <<"0", ".", "0", "1">>
  /\ kv[CreditAprKey] = <<"2", "4">>
  /\ kv[CreditPaymentTypeKey] = "minimum"
  /\ CreditCardHasValidInputs
  /\ GuardPayoff(CurrentBalance, AnnualRate)
  /\ creditCard.paymentSchedule = <<>>
  /\ creditCard.results.monthsToPayoff = 0
  /\ IsZero(creditCard.results.totalInterest)
  /\ IsZero(creditCard.results.monthlyPayment)
  /\ creditCard.results.totalPaid = CurrentBalance

=============================================================================
